---- MODULE Spec2Model ----
(***************************************************************************)
(* Model of the Spinoza Ethics reader (rdaum/ethica): the application      *)
(* state of App.tsx, its loader (loadData / parseN3), the relationship     *)
(* query (performReasoning), the chain finder (findTransitiveChains), the  *)
(* weight analysis (analyzeElementWeight) and the selection handler        *)
(* (handleElementSelect).                                                  *)
(*                                                                         *)
(* Terms.  An RDF named node is a record [ns, local]: the namespace the    *)
(* URI is built from and the part after '#'.  DataFactory.namedNode of     *)
(* `http://spinoza.org/ethics#${id}` is EthicsNode(id); the rdf:type URI   *)
(* is RdfTypeNode.  value.split('#')[1] is the local part.                 *)
(*                                                                         *)
(* Stores.  An N3.Store indexes its quads, so a quad that is added twice   *)
(* is kept once.  A store is modelled as the sequence of its distinct      *)
(* quads in the order they were first added; getQuads keeps that order.    *)
(*                                                                         *)
(* Numbers.  The weights 1.5 and the score factors 1.5, 0.2 and 0.5 are    *)
(* not integers.  Weights and weight sums are kept in HALVES (cites = 2,   *)
(* refutedByAbsurdity = 3, ...), and a foundational score is the exact     *)
(* rational num/den in units of 1/20.                                      *)
(***************************************************************************)
EXTENDS Integers, Sequences, FiniteSets, TLC

VARIABLES
    elements,         \* state.elements: the element catalog, id -> type
    n3Store,          \* state.n3Store: the asserted store
    eyeStore,         \* state.eyeStore: the derived store
    selectedElement,  \* state.selectedElement
    reasoning,        \* state.reasoning
    transitiveChains, \* state.transitiveChains
    weightAnalysis,   \* state.weightAnalysis
    loading,          \* state.loading
    currentPart,      \* state.currentPart
    load,             \* the running loadData call: its position and locals
    selectTask,       \* the running handleElementSelect call after its first setState
    explorer,         \* the EthicsExplorer object: its store and the report last returned
    navigation        \* the attemptNavigation timer chain of handleNavigateToElement

vars == <<elements, n3Store, eyeStore, selectedElement, reasoning,
          transitiveChains, weightAnalysis, loading, currentPart, load, selectTask,
          explorer, navigation>>

-----------------------------------------------------------------------------
(* Bounds of the model *)

\* The number of statements the asserted file and the oracle output hold together.
MaxQuads == 2

NULL == "null"

\* Element ids that occur in the input files and documents.
FileIds == {"A", "B"}

\* Element ids a query is asked about ("C" occurs in no file and no document).
ElementIds == FileIds \cup {"C"}

-----------------------------------------------------------------------------
(* RDF terms and quads *)

ETHICS == "http://spinoza.org/ethics#"
RDF == "http://www.w3.org/1999/02/22-rdf-syntax-ns#"

EthicsNode(id) == [ns |-> ETHICS, local |-> id]

RdfTypeNode == [ns |-> RDF, local |-> "type"]

NullTerm == [ns |-> NULL, local |-> NULL]

\* value.includes('#') ? value.split('#')[1] : value -- every URI here has a '#'.
cleanValue(term) == term.local

Quad(s, p, o) == [subject |-> s, predicate |-> p, object |-> o]

Range(seq) == {seq[i] : i \in 1..Len(seq)}

Max(a, b) == IF a >= b THEN a ELSE b

Min(a, b) == IF a <= b THEN a ELSE b

-----------------------------------------------------------------------------
(* N3.Store *)

EmptyStore == <<>>

\* Mutant of addQuad: a store that keeps every added quad, as a multiset would.
addQuadAlways(store, quad) == Append(store, quad)

\* store.addQuad(quad): a quad the store already holds is not added again.
addQuad(store, quad) ==
    IF quad \in Range(store) THEN store ELSE Append(store, quad)

RECURSIVE parseInto(_, _)
parseInto(store, content) ==
    IF content = <<>> THEN store
    ELSE parseInto(addQuad(store, Head(content)), Tail(content))

\* parseN3(n3Content): a new Store with every parsed quad added to it.
parseN3(content) == parseInto(EmptyStore, content)

\* Mutant of matches: the object of the pattern is not compared.
matchesIgnoringObject(quad, s, p, o) ==
    /\ (s = NullTerm \/ quad.subject = s)
    /\ (p = NullTerm \/ quad.predicate = p)

\* Whether a quad fits the pattern of a getQuads call.
matches(quad, s, p, o) ==
    /\ (s = NullTerm \/ quad.subject = s)
    /\ (p = NullTerm \/ quad.predicate = p)
    /\ (o = NullTerm \/ quad.object = o)

\* store.getQuads(subject, predicate, object, null): null is a wildcard.
getQuads(store, s, p, o) ==
    LET keep(quad) == matches(quad, s, p, o)
    IN SelectSeq(store, keep)

-----------------------------------------------------------------------------
(* The predicate vocabulary of performReasoning *)

originalPredicates ==
    << "cites", "refersTo", "mentions", "clearlyfollowsFrom", "evidentFrom",
       "necessarilyFollows", "provedBy", "demonstratedBy", "groundedIn",
       "hasCorollary", "impliesConsequence", "buildsUpon", "appliesResultFrom",
       "refutedByAbsurdity", "contradicts", "partOf", "containsSection",
       "containsElement", "type" >>

inferredPredicates ==
    << "transitivelyDependsOn", "dependsUpon", "circularArgument",
       "derivedFrom", "explainsElement" >>

allPredicates == originalPredicates \o inferredPredicates

\* inferredPredicates.includes(predicate)
isInferred(predicate) == predicate \in Range(inferredPredicates)

\* predicate === 'type' ? namedNode(rdf:type) : namedNode(ethics#predicate)
predicateURI(predicate) ==
    IF predicate = "type" THEN RdfTypeNode ELSE EthicsNode(predicate)

\* Mutant of inversePredicate: the chain lacks its partOf line.
inversePredicateWithoutPartOf(predicate) ==
    CASE predicate = "cites" -> "citedBy"
      [] predicate = "refersTo" -> "referredToBy"
      [] predicate = "mentions" -> "mentionedBy"
      [] predicate = "clearlyfollowsFrom" -> "clearlyLeadsTo"
      [] predicate = "evidentFrom" -> "makesEvident"
      [] predicate = "necessarilyFollows" -> "necessarilyFollowedBy"
      [] predicate = "provedBy" -> "proves"
      [] predicate = "demonstratedBy" -> "demonstrates"
      [] predicate = "groundedIn" -> "grounds"
      [] predicate = "hasCorollary" -> "isCorollaryOf"
      [] predicate = "impliesConsequence" -> "isConsequenceOf"
      [] predicate = "buildsUpon" -> "isBuiltUponBy"
      [] predicate = "appliesResultFrom" -> "providesResultTo"
      [] predicate = "refutedByAbsurdity" -> "refutes"
      [] predicate = "contradicts" -> "contradictedBy"
      [] predicate = "containsSection" -> "isSectionOf"
      [] predicate = "containsElement" -> "isElementOf"
      [] OTHER -> "inverse_" \o predicate

\* The conditional chain that names the inverse of an inward relationship.
inversePredicate(predicate) ==
    CASE predicate = "cites" -> "citedBy"
      [] predicate = "refersTo" -> "referredToBy"
      [] predicate = "mentions" -> "mentionedBy"
      [] predicate = "clearlyfollowsFrom" -> "clearlyLeadsTo"
      [] predicate = "evidentFrom" -> "makesEvident"
      [] predicate = "necessarilyFollows" -> "necessarilyFollowedBy"
      [] predicate = "provedBy" -> "proves"
      [] predicate = "demonstratedBy" -> "demonstrates"
      [] predicate = "groundedIn" -> "grounds"
      [] predicate = "hasCorollary" -> "isCorollaryOf"
      [] predicate = "impliesConsequence" -> "isConsequenceOf"
      [] predicate = "buildsUpon" -> "isBuiltUponBy"
      [] predicate = "appliesResultFrom" -> "providesResultTo"
      [] predicate = "refutedByAbsurdity" -> "refutes"
      [] predicate = "contradicts" -> "contradictedBy"
      [] predicate = "partOf" -> "contains"
      [] predicate = "containsSection" -> "isSectionOf"
      [] predicate = "containsElement" -> "isElementOf"
      [] OTHER -> "inverse_" \o predicate

\* Mutant of storeToUse: every predicate is looked up in the asserted store.
storeToUseAsserted(predicate, n3, eye) == n3

\* const storeToUse = inferredPredicates.includes(predicate) ? eyeStore : n3Store
storeToUse(predicate, n3, eye) == IF isInferred(predicate) THEN eye ELSE n3

Record(s, p, o, inf) ==
    [subject |-> s, predicate |-> p, object |-> o, inferred |-> inf]

\* Mutant of outwardRecords: the lookup leaves the subject unbound.
outwardRecordsAnySubject(elementId, predicate, n3, eye) ==
    LET outward == getQuads(storeToUse(predicate, n3, eye), NullTerm,
                            predicateURI(predicate), NullTerm)
    IN [i \in 1..Len(outward) |->
          Record(elementId, predicate, cleanValue(outward[i].object),
                 isInferred(predicate))]

\* The records one predicate adds in the outward pass.
outwardRecords(elementId, predicate, n3, eye) ==
    LET outward == getQuads(storeToUse(predicate, n3, eye), EthicsNode(elementId),
                            predicateURI(predicate), NullTerm)
    IN [i \in 1..Len(outward) |->
          Record(elementId, predicate, cleanValue(outward[i].object),
                 isInferred(predicate))]

\* Mutant of inwardRecords: only the first inward match is recorded.
inwardRecordsFirst(elementId, predicate, n3, eye) ==
    LET inward == getQuads(storeToUse(predicate, n3, eye), NullTerm,
                           predicateURI(predicate), EthicsNode(elementId))
    IN [i \in 1..Min(1, Len(inward)) |->
          Record(cleanValue(inward[i].subject), inversePredicate(predicate),
                 elementId, isInferred(predicate))]

\* Mutant of inwardRecords: an inward match keeps the predicate's own name.
inwardRecordsUnrenamed(elementId, predicate, n3, eye) ==
    LET inward == getQuads(storeToUse(predicate, n3, eye), NullTerm,
                           predicateURI(predicate), EthicsNode(elementId))
    IN [i \in 1..Len(inward) |->
          Record(cleanValue(inward[i].subject), predicate,
                 elementId, isInferred(predicate))]

\* The records one predicate adds in the inward pass.
inwardRecords(elementId, predicate, n3, eye) ==
    LET inward == getQuads(storeToUse(predicate, n3, eye), NullTerm,
                           predicateURI(predicate), EthicsNode(elementId))
    IN [i \in 1..Len(inward) |->
          Record(cleanValue(inward[i].subject), inversePredicate(predicate),
                 elementId, isInferred(predicate))]

RECURSIVE outwardPass(_, _, _, _)
outwardPass(elementId, predicates, n3, eye) ==
    IF predicates = <<>> THEN <<>>
    ELSE outwardRecords(elementId, Head(predicates), n3, eye)
           \o outwardPass(elementId, Tail(predicates), n3, eye)

RECURSIVE inwardPass(_, _, _, _)
inwardPass(elementId, predicates, n3, eye) ==
    IF predicates = <<>> THEN <<>>
    ELSE inwardRecords(elementId, Head(predicates), n3, eye)
           \o inwardPass(elementId, Tail(predicates), n3, eye)

\* performReasoning(elementId) against the stores of the render it runs in.
performReasoning(elementId, n3, eye) ==
    outwardPass(elementId, allPredicates, n3, eye)
      \o inwardPass(elementId, allPredicates, n3, eye)

-----------------------------------------------------------------------------
(* findTransitiveChains *)

PathStep(from, to, rel) == [from |-> from, to |-> to, relationship |-> rel]

Chain(type, start, end, rel) ==
    [type |-> type, start |-> start, end |-> end, relationship |-> rel,
     inferred |-> TRUE, path |-> <<PathStep(start, end, rel)>>]

\* One forEach over the outward matches of a dependency predicate.
outwardChains(startElementId, type, rel, eye) ==
    LET quads == getQuads(eye, EthicsNode(startElementId), EthicsNode(rel), NullTerm)
    IN [i \in 1..Len(quads) |->
          Chain(type, startElementId, cleanValue(quads[i].object), rel)]

\* Mutant of inwardChains: start and end are exchanged.
inwardChainsSwapped(startElementId, type, rel, eye) ==
    LET quads == getQuads(eye, NullTerm, EthicsNode(rel), EthicsNode(startElementId))
    IN [i \in 1..Len(quads) |->
          Chain(type, startElementId, cleanValue(quads[i].subject), rel)]

\* One forEach over the inward matches of a dependency predicate.
inwardChains(startElementId, type, rel, eye) ==
    LET quads == getQuads(eye, NullTerm, EthicsNode(rel), EthicsNode(startElementId))
    IN [i \in 1..Len(quads) |->
          Chain(type, cleanValue(quads[i].subject), startElementId, rel)]

findTransitiveChains(startElementId, eye) ==
    outwardChains(startElementId, "transitive_dependency", "transitivelyDependsOn", eye)
      \o outwardChains(startElementId, "dependency", "dependsUpon", eye)
      \o inwardChains(startElementId, "inverse_transitive_dependency",
                      "transitivelyDependsOn", eye)
      \o inwardChains(startElementId, "inverse_dependency", "dependsUpon", eye)

-----------------------------------------------------------------------------
(* analyzeElementWeight *)

\* Object.entries(relationshipWeights): the weighted predicates in key order.
weightedPredicates ==
    << "cites", "necessarilyFollows", "clearlyfollowsFrom", "provedBy",
       "appliesResultFrom", "refutedByAbsurdity", "buildsUpon", "groundedIn",
       "demonstratedBy" >>

\* relationshipWeights[predicate], in halves (cites: 1, refutedByAbsurdity: 1.5, ...).
relationshipWeights(predicate) ==
    CASE predicate = "cites" -> 2
      [] predicate = "necessarilyFollows" -> 6
      [] predicate = "clearlyfollowsFrom" -> 4
      [] predicate = "provedBy" -> 4
      [] predicate = "appliesResultFrom" -> 4
      [] predicate = "refutedByAbsurdity" -> 3
      [] predicate = "buildsUpon" -> 3
      [] predicate = "groundedIn" -> 4
      [] predicate = "demonstratedBy" -> 4

\* Mutant of inboundTriples: the element is put in the subject place of the pattern.
inboundTriplesOfSubject(elementId, predicate, n3) ==
    getQuads(n3, EthicsNode(elementId), EthicsNode(predicate), NullTerm)

\* state.n3Store.getQuads(null, predicateURI, elementURI, null)
inboundTriples(elementId, predicate, n3) ==
    getQuads(n3, NullTerm, EthicsNode(predicate), EthicsNode(elementId))

\* state.n3Store.getQuads(elementURI, predicateURI, null, null)
outboundTriples(elementId, predicate, n3) ==
    getQuads(n3, EthicsNode(elementId), EthicsNode(predicate), NullTerm)

RECURSIVE inboundSum(_, _, _)
inboundSum(elementId, predicates, n3) ==
    IF predicates = <<>> THEN 0
    ELSE Len(inboundTriples(elementId, Head(predicates), n3))
             * relationshipWeights(Head(predicates))
           + inboundSum(elementId, Tail(predicates), n3)

RECURSIVE outboundSum(_, _, _)
outboundSum(elementId, predicates, n3) ==
    IF predicates = <<>> THEN 0
    ELSE Len(outboundTriples(elementId, Head(predicates), n3))
             * relationshipWeights(Head(predicates))
           + outboundSum(elementId, Tail(predicates), n3)

\* analysis.inboundWeight after the inbound forEach (in halves).
inboundWeight(elementId, n3) == inboundSum(elementId, weightedPredicates, n3)

\* analysis.outboundWeight after the outbound forEach (in halves).
outboundWeight(elementId, n3) == outboundSum(elementId, weightedPredicates, n3)

\* analysis.relationshipBreakdown[`${predicate}_inbound`]
inboundEntry(elementId, predicate, n3) ==
    LET triples == inboundTriples(elementId, predicate, n3)
    IN [count |-> Len(triples),
        weight |-> Len(triples) * relationshipWeights(predicate),
        elements |-> [i \in 1..Len(triples) |-> cleanValue(triples[i].subject)]]

\* analysis.relationshipBreakdown[`${predicate}_outbound`]
outboundEntry(elementId, predicate, n3) ==
    LET triples == outboundTriples(elementId, predicate, n3)
    IN [count |-> Len(triples),
        weight |-> Len(triples) * relationshipWeights(predicate),
        elements |-> [i \in 1..Len(triples) |-> cleanValue(triples[i].object)]]

\* analysis.relationshipBreakdown: an entry only for a pair with count > 0.
relationshipBreakdown(elementId, n3) ==
    LET inKeys == {p \in Range(weightedPredicates) :
                     Len(inboundTriples(elementId, p, n3)) > 0}
        outKeys == {p \in Range(weightedPredicates) :
                     Len(outboundTriples(elementId, p, n3)) > 0}
        keys == {<<p, "inbound">> : p \in inKeys} \cup {<<p, "outbound">> : p \in outKeys}
    IN [k \in keys |->
          IF k[2] = "inbound" THEN inboundEntry(elementId, k[1], n3)
          ELSE outboundEntry(elementId, k[1], n3)]

\* The nesting of recursive calls the model follows before it gives a traversal up.
RecursionFuel == 10

RECURSIVE weightedQuads(_, _, _, _)
\* The statements the forEach over relationshipWeights visits at one node, in
\* visiting order, each with its weight and the element at its other end.
weightedQuads(elementId, predicates, n3, inbound) ==
    IF predicates = <<>> THEN <<>>
    ELSE LET p == Head(predicates)
             triples == IF inbound THEN inboundTriples(elementId, p, n3)
                        ELSE outboundTriples(elementId, p, n3)
         IN [i \in 1..Len(triples) |->
               [weight |-> relationshipWeights(p),
                other |-> IF inbound THEN cleanValue(triples[i].subject)
                          ELSE cleanValue(triples[i].object)]]
              \o weightedQuads(elementId, Tail(predicates), n3, inbound)

\* A traversal threads one record through its calls: the visited set the calls
\* share, the number of calls made, the nodes expanded with their depths, the
\* deepest nesting, and whether the model gave up at RecursionFuel.
NewRun == [visited |-> {}, calls |-> 0, expanded |-> <<>>, nesting |-> 0,
           exhausted |-> FALSE]

\* Mutant of influenceStops: the depth cap is missing.
influenceStopsUncapped(currentElement, visited, depth) == currentElement \in visited

\* if (depth > 4 || visited.has(currentElement)) return 0;
influenceStops(currentElement, visited, depth) ==
    depth > 4 \/ currentElement \in visited

\* Mutant of influenceContribution: the multiplier starts at 4.
influenceContributionShifted(weight, depth) == weight * (4 - depth)

\* influence += weight * (5 - depth)
influenceContribution(weight, depth) == weight * (5 - depth)

RECURSIVE calculateTransitiveInfluence(_, _, _, _)
RECURSIVE influenceOfDependents(_, _, _, _)

\* calculateTransitiveInfluence(currentElement, visited, depth): the value it
\* returns (in halves) and the run after it; visited is one Set shared by all calls.
calculateTransitiveInfluence(currentElement, run, depth, n3) ==
    LET entered == [run EXCEPT !.calls = @ + 1, !.nesting = Max(@, depth + 1)]
    IN IF depth >= RecursionFuel
       THEN [value |-> 0, run |-> [entered EXCEPT !.exhausted = TRUE]]
       ELSE IF influenceStops(currentElement, run.visited, depth)
       THEN [value |-> 0, run |-> entered]
       ELSE influenceOfDependents(
                weightedQuads(currentElement, weightedPredicates, n3, TRUE),
                [value |-> 0,
                 run |-> [entered EXCEPT
                            !.visited = @ \cup {currentElement},
                            !.expanded = Append(@, <<currentElement, depth>>)]],
                depth, n3)

\* Mutant of influenceAdd: the next sibling gets the visited set as it was before
\* this dependent's call (the set passed by value).
influenceAddByValue(d, acc, sub, depth) ==
    [value |-> acc.value + influenceContribution(d.weight, depth) + sub.value,
     run |-> [sub.run EXCEPT !.visited = acc.run.visited]]

\* influence += weight * (5 - depth); influence += calculateTransitiveInfluence(...)
\* for one dependent, sub being what the recursive call returned.
influenceAdd(d, acc, sub, depth) ==
    [value |-> acc.value + influenceContribution(d.weight, depth) + sub.value,
     run |-> sub.run]

\* The dependents.forEach of one node: add the contribution, then recurse.
influenceOfDependents(dependents, acc, depth, n3) ==
    IF dependents = <<>> THEN acc
    ELSE influenceOfDependents(
             Tail(dependents),
             influenceAdd(Head(dependents), acc,
                          calculateTransitiveInfluence(Head(dependents).other, acc.run,
                                                       depth + 1, n3),
                          depth),
             depth, n3)

\* calculateTransitiveInfluence(elementId, new Set(), 0)
influenceRun(elementId, n3) == calculateTransitiveInfluence(elementId, NewRun, 0, n3)

\* Mutant of depthStops: the visited test is missing.
depthStopsNever(currentElement, visited) == FALSE

\* if (visited.has(currentElement)) return 0;
depthStops(currentElement, visited) == currentElement \in visited

\* Mutant of passedVisited: the callee is given an empty set.
passedVisitedEmpty(visited) == {}

\* calculateDepth(dependency, new Set(visited)): the set the callee is given.
passedVisited(visited) == visited

RECURSIVE calculateDepth(_, _, _, _, _)
RECURSIVE depthOfDependencies(_, _, _, _, _)

\* calculateDepth(currentElement, visited): the value it returns and the run after
\* it.  Each call gets its own copy of visited, so the set is a parameter here and
\* the run only counts (run.visited is not used).
calculateDepth(currentElement, visited, run, level, n3) ==
    LET entered == [run EXCEPT !.calls = @ + 1, !.nesting = Max(@, level + 1)]
    IN IF level >= RecursionFuel
       THEN [value |-> 0, run |-> [entered EXCEPT !.exhausted = TRUE]]
       ELSE IF depthStops(currentElement, visited)
       THEN [value |-> 0, run |-> entered]
       ELSE depthOfDependencies(
                weightedQuads(currentElement, weightedPredicates, n3, FALSE),
                visited \cup {currentElement},
                [value |-> 0,
                 run |-> [entered EXCEPT
                            !.expanded = Append(@, <<currentElement, level>>)]],
                level, n3)

\* const depth = 1 + calculateDepth(...); maxDepth = Math.max(maxDepth, depth) for
\* one dependency, sub being what the recursive call returned.
depthMax(acc, sub) ==
    [value |-> Max(acc.value, 1 + sub.value), run |-> sub.run]

\* The dependencies.forEach of one node: maxDepth = max(maxDepth, 1 + depth below).
depthOfDependencies(dependencies, visited, acc, level, n3) ==
    IF dependencies = <<>> THEN acc
    ELSE depthOfDependencies(
             Tail(dependencies), visited,
             depthMax(acc, calculateDepth(Head(dependencies).other,
                                          passedVisited(visited), acc.run,
                                          level + 1, n3)),
             level, n3)

\* calculateDepth(elementId, new Set())
depthRun(elementId, n3) == calculateDepth(elementId, {}, NewRun, 0, n3)

\* state.elements.get(elementId)?.type
elementType(elementId, catalog) ==
    IF elementId \in DOMAIN catalog THEN catalog[elementId] ELSE "undefined"

\* Mutant of foundationalBase: the values of proof and corollary are exchanged.
foundationalBaseSwapped(type) ==
    CASE type = "definition" -> 200
      [] type = "axiom" -> 160
      [] type = "proposition" -> 60
      [] type = "proof" -> 40
      [] type = "corollary" -> 20
      [] type = "note" -> 10
      [] OTHER -> 0

\* The switch on elementType, in twentieths (definition: 10, note: 0.5, ...).
foundationalBase(type) ==
    CASE type = "definition" -> 200
      [] type = "axiom" -> 160
      [] type = "proposition" -> 60
      [] type = "proof" -> 20
      [] type = "corollary" -> 40
      [] type = "note" -> 10
      [] OTHER -> 0

\* Mutant of dependencyRatio: the quotient is outbound over inbound.
dependencyRatioInverted(inW, outW) ==
    IF outW = 0 THEN [num |-> 1, den |-> 1]
    ELSE IF outW >= inW THEN [num |-> 1, den |-> 1]
    ELSE [num |-> outW, den |-> inW]

\* outboundWeight === 0 ? 1 : Math.min(1, inboundWeight / outboundWeight), a fraction.
dependencyRatio(inW, outW) ==
    IF outW = 0 THEN [num |-> 1, den |-> 1]
    ELSE IF inW >= outW THEN [num |-> 1, den |-> 1]
    ELSE [num |-> inW, den |-> outW]

\* Math.max(0, base + inboundWeight * 1.5 + transitiveInfluence * 0.2 + ratio * 5):
\* the fraction num/den in twentieths, from weights in halves.
foundationalScore(type, inW, outW, influence) ==
    LET ratio == dependencyRatio(inW, outW)
        num == (foundationalBase(type) + 15 * inW + 2 * influence) * ratio.den
                 + 100 * ratio.num
    IN [num |-> Max(0, num), den |-> ratio.den]

\* Math.round(transitiveInfluence / 10), from the influence in halves.
influenceReach(influence) == (influence + 10) \div 20

\* a <= b for two score fractions
ScoreLeq(a, b) == a.num * b.den <= b.num * a.den

\* analyzeElementWeight(elementId) against the store and catalog of its render.
analyzeElementWeight(elementId, n3, catalog) ==
    LET inW == inboundWeight(elementId, n3)
        outW == outboundWeight(elementId, n3)
        influence == influenceRun(elementId, n3).value
    IN [elementId |-> elementId,
        inboundWeight |-> inW,
        outboundWeight |-> outW,
        transitiveInfluence |-> influence,
        foundationalScore |->
            foundationalScore(elementType(elementId, catalog), inW, outW, influence),
        relationshipBreakdown |-> relationshipBreakdown(elementId, n3),
        dependencyDepth |-> depthRun(elementId, n3).value,
        influenceReach |-> influenceReach(influence)]

-----------------------------------------------------------------------------
(* ethics-explorer.js: the citation tally of getMostCitedElements *)

\* quad.object.value.replace('http://spinoza.org/ethics#', ''): the prefix is removed
\* where the value has it; any other value is kept whole.
stripEthics(term) == IF term.ns = ETHICS THEN term.local ELSE term.ns \o term.local

\* store.getQuads(null, namedNode(ethics#cites), null)
citations(store) == getQuads(store, NullTerm, EthicsNode("cites"), NullTerm)

\* citationCounts after the forEach: each cited element with its number of citations.
citationCounts(store) ==
    LET cited == citations(store)
    IN [c \in {stripEthics(cited[i].object) : i \in 1..Len(cited)} |->
          Cardinality({i \in 1..Len(cited) : stripEthics(cited[i].object) = c})]

-----------------------------------------------------------------------------
(* The inputs of loadData: the XML document, the asserted file, the oracle *)

\* The predicates of the statements in the input files: asserted ones (weighted,
\* unweighted, rdf:type), derived ones, and ethics#type, which no query asks for.
FilePredicates ==
    {EthicsNode(p) : p \in {"cites", "necessarilyFollows", "refutedByAbsurdity",
                            "partOf", "dependsUpon", "transitivelyDependsOn",
                            "circularArgument", "type"}}
      \cup {RdfTypeNode}

FileQuads ==
    {Quad(EthicsNode(s), p, EthicsNode(o)) : s \in FileIds, p \in FilePredicates,
                                             o \in FileIds}

\* The statement lists of at most n statements (a statement may repeat).
Contents(n) == UNION {[1..k -> FileQuads] : k \in 0..n}

\* The documents a part may be fetched as: the elements it marks up, in order.
XmlDocuments ==
    { << [id |-> "A", type |-> "definition"], [id |-> "B", type |-> "proposition"] >>,
      << [id |-> "A", type |-> "proof"], [id |-> "B", type |-> "note"] >> }

\* parseXML(xmlText): elements.set(id, ...) for each element, a later one replacing
\* an earlier one of the same id.  The catalog keeps each element's type.
parseXML(doc) ==
    [id \in {doc[i].id : i \in 1..Len(doc)} |->
       LET last == CHOOSE i \in 1..Len(doc) :
                     /\ doc[i].id = id
                     /\ \A j \in 1..Len(doc) : doc[j].id = id => j <= i
       IN doc[last].type]

EmptyCatalog == << >>

-----------------------------------------------------------------------------
(* The application state and its handlers *)

\* The locals of a loadData call at position pc; oracle is how its inner try ended.
NoLoad(pc) ==
    [pc |-> pc, elements |-> EmptyCatalog, n3Content |-> <<>>, n3Store |-> EmptyStore,
     oracle |-> "none"]

NoTask ==
    [pending |-> FALSE, elementId |-> NULL, elements |-> EmptyCatalog,
     n3Store |-> EmptyStore, eyeStore |-> EmptyStore]

NoAnalysis == [elementId |-> NULL]

\* No attemptNavigation timer is pending.
NoNavigation ==
    [active |-> FALSE, elementId |-> NULL, attempts |-> 0, lookups |-> 0, delay |-> 0,
     found |-> FALSE, elements |-> EmptyCatalog, n3Store |-> EmptyStore,
     eyeStore |-> EmptyStore]

\* new EthicsExplorer(n3FilePath): an empty store, nothing loaded or reported.
NoReport == [name |-> "none", topN |-> 0, rows |-> <<>>]

NoExplorer == [loaded |-> FALSE, store |-> EmptyStore, report |-> NoReport]

\* useState's initial AppState, with the mount effect's loadData about to run.
Init ==
    /\ elements = EmptyCatalog
    /\ n3Store = EmptyStore
    /\ eyeStore = EmptyStore
    /\ selectedElement = NULL
    /\ reasoning = <<>>
    /\ transitiveChains = <<>>
    /\ weightAnalysis = NoAnalysis
    /\ loading = TRUE
    /\ currentPart = 1
    /\ load = NoLoad("xml")
    /\ selectTask = NoTask
    /\ explorer = NoExplorer
    /\ navigation = NoNavigation

\* Mutant of loadFailed: the outer catch leaves loading as it is.
loadFailedStillLoading ==
    /\ load' = NoLoad("failed")
    /\ UNCHANGED <<elements, n3Store, eyeStore, selectedElement, reasoning,
                   transitiveChains, weightAnalysis, loading, currentPart, selectTask,
                   explorer, navigation>>

\* catch (error) of loadData: only loading changes.
loadFailed ==
    /\ loading' = FALSE
    /\ load' = NoLoad("failed")
    /\ UNCHANGED <<elements, n3Store, eyeStore, selectedElement, reasoning,
                   transitiveChains, weightAnalysis, currentPart, selectTask,
                   explorer, navigation>>

\* loadData up to parseXML, for a document of the given set: the document is
\* fetched and parsed, or the fetch throws.
LoadDocumentOf(documents) ==
    /\ load.pc = "xml"
    /\ \/ \E doc \in documents :
            /\ load' = [load EXCEPT !.pc = "n3", !.elements = parseXML(doc)]
            /\ UNCHANGED <<elements, n3Store, eyeStore, selectedElement, reasoning,
                           transitiveChains, weightAnalysis, loading, currentPart,
                           selectTask, explorer, navigation>>
       \/ loadFailed

LoadDocument == LoadDocumentOf(XmlDocuments)

\* Mutant of LoadFactsOf: the asserted store is installed as soon as it is parsed.
LoadFactsInstallingOf(contents) ==
    /\ load.pc = "n3"
    /\ \/ \E content \in contents :
            /\ load' = [load EXCEPT !.pc = "eye", !.n3Content = content,
                                    !.n3Store = parseN3(content)]
            /\ n3Store' = parseN3(content)
            /\ UNCHANGED <<elements, eyeStore, selectedElement, reasoning,
                           transitiveChains, weightAnalysis, loading, currentPart,
                           selectTask, explorer, navigation>>
       \/ loadFailed

\* loadData up to parseN3(n3Content), for an asserted file of the given set: the
\* file is fetched and parsed, or the fetch or the parser throws.
LoadFactsOf(contents) ==
    /\ load.pc = "n3"
    /\ \/ \E content \in contents :
            /\ load' = [load EXCEPT !.pc = "eye", !.n3Content = content,
                                    !.n3Store = parseN3(content)]
            /\ UNCHANGED <<elements, n3Store, eyeStore, selectedElement, reasoning,
                           transitiveChains, weightAnalysis, loading, currentPart,
                           selectTask, explorer, navigation>>
       \/ loadFailed

LoadFacts == LoadFactsOf(Contents(MaxQuads))

\* Mutant of reasonedStore: the statements read before the failure are kept.
reasonedStoreKeepsPartial(outcome) == parseN3(outcome.results)

\* The inner try of loadData: what eyeStore is after it.  The try throws (the
\* fetch, the oracle, or parseN3 on its results), or the oracle returns a statement
\* list (an empty one leaves the new Store as it is).
reasonedStore(outcome) ==
    IF outcome.threw THEN EmptyStore
    ELSE IF outcome.results = <<>> THEN EmptyStore
    ELSE parseN3(outcome.results)

\* How the inner try ended.
oracleKind(outcome) ==
    IF outcome.threw THEN "threw"
    ELSE IF outcome.results = <<>> THEN "empty"
    ELSE "results"

\* The ways the inner try can end: with results the oracle returned, or with a
\* throw, results being what had been produced by then.
OracleOutcomes(n) ==
    {[threw |-> t, results |-> c] : t \in BOOLEAN, c \in Contents(n)}

\* loadData from the oracle call to its last setState, for an outcome of the given
\* set: elements, n3Store and eyeStore are installed in one update and loading ends.
LoadInferenceOf(outcomes) ==
    /\ load.pc = "eye"
    /\ \E outcome \in outcomes :
         /\ elements' = load.elements
         /\ n3Store' = load.n3Store
         /\ eyeStore' = reasonedStore(outcome)
         /\ loading' = FALSE
         /\ load' = [load EXCEPT !.pc = "done", !.oracle = oracleKind(outcome)]
    /\ UNCHANGED <<selectedElement, reasoning, transitiveChains, weightAnalysis,
                   currentPart, selectTask, explorer, navigation>>

LoadInference == LoadInferenceOf(OracleOutcomes(MaxQuads - Len(load.n3Content)))

\* handleElementSelect(elementId) for an element id of the given set, up to its
\* first await: selectedElement is set; the three analyses will read the stores of
\* the render the handler belongs to.
HandleElementSelectOf(ids) ==
    /\ ~loading
    /\ ~selectTask.pending
    /\ \E elementId \in ids :
         /\ selectedElement' = elementId
         /\ selectTask' = [pending |-> TRUE, elementId |-> elementId,
                           elements |-> elements, n3Store |-> n3Store,
                           eyeStore |-> eyeStore]
    /\ UNCHANGED <<elements, n3Store, eyeStore, reasoning, transitiveChains,
                   weightAnalysis, loading, currentPart, load, explorer, navigation>>

\* handleElementSelect(elementId) for an element BookView shows.
HandleElementSelect == HandleElementSelectOf(DOMAIN elements)

\* Mutant of weightStore: the analysis reads the derived statements too.
weightStoreWithDerived(n3, eye) == n3 \o eye

\* The store analyzeElementWeight reads: state.n3Store, never state.eyeStore.
weightStore(n3, eye) == n3

\* Mutant of SelectResults: the query also files the inverse of the first
\* relationship it found in the asserted store.
SelectResultsFilingInverse ==
    /\ selectTask.pending
    /\ reasoning' = performReasoning(selectTask.elementId, selectTask.n3Store,
                                     selectTask.eyeStore)
    /\ transitiveChains' = findTransitiveChains(selectTask.elementId,
                                                selectTask.eyeStore)
    /\ weightAnalysis' = analyzeElementWeight(selectTask.elementId, selectTask.n3Store,
                                              selectTask.elements)
    /\ n3Store' = IF reasoning' = <<>> THEN n3Store
                  ELSE addQuad(n3Store, Quad(EthicsNode(reasoning'[1].object),
                                             EthicsNode(reasoning'[1].predicate),
                                             EthicsNode(reasoning'[1].subject)))
    /\ selectTask' = NoTask
    /\ UNCHANGED <<elements, eyeStore, selectedElement, loading, currentPart, load,
                   explorer, navigation>>

\* handleElementSelect(elementId) from its awaits on: the three results are
\* computed and stored in one setState.
SelectResults ==
    /\ selectTask.pending
    /\ reasoning' = performReasoning(selectTask.elementId, selectTask.n3Store,
                                     selectTask.eyeStore)
    /\ transitiveChains' = findTransitiveChains(selectTask.elementId,
                                                selectTask.eyeStore)
    /\ weightAnalysis' = analyzeElementWeight(
                             selectTask.elementId,
                             weightStore(selectTask.n3Store, selectTask.eyeStore),
                             selectTask.elements)
    /\ selectTask' = NoTask
    /\ UNCHANGED <<elements, n3Store, eyeStore, selectedElement, loading,
                   currentPart, load, explorer, navigation>>

\* onClose of the reasoning panel: handleElementSelect(null).
CloseSelection ==
    /\ ~loading
    /\ ~selectTask.pending
    /\ selectedElement # NULL \/ Len(reasoning) > 0
    /\ selectedElement' = NULL
    /\ UNCHANGED <<elements, n3Store, eyeStore, reasoning, transitiveChains,
                   weightAnalysis, loading, currentPart, load, selectTask,
                   explorer, navigation>>

Next ==
    \/ LoadDocument
    \/ LoadFacts
    \/ LoadInference
    \/ HandleElementSelect
    \/ SelectResults
    \/ CloseSelection

Spec == Init /\ [][Next]_vars

-----------------------------------------------------------------------------
(* Reloads: the part buttons *)

\* The parts the part buttons offer.
Parts == {1, 2}

\* handlePartChange(partNumber): the part is set and the selection and its results
\* are cleared; when the part differs, the effect on state.currentPart runs loadData
\* again, which sets loading.
HandlePartChange ==
    /\ ~loading
    /\ \E partNumber \in Parts :
         /\ currentPart' = partNumber
         /\ IF partNumber # currentPart
            THEN loading' = TRUE /\ load' = NoLoad("xml")
            ELSE UNCHANGED <<loading, load>>
    /\ selectedElement' = NULL
    /\ reasoning' = <<>>
    /\ transitiveChains' = <<>>
    /\ weightAnalysis' = NoAnalysis
    /\ UNCHANGED <<elements, n3Store, eyeStore, selectTask, explorer, navigation>>

\* The asserted files of the reload runs.
ReloadContents ==
    { <<Quad(EthicsNode("A"), EthicsNode("cites"), EthicsNode("B"))>>,
      <<Quad(EthicsNode("B"), EthicsNode("cites"), EthicsNode("A"))>> }

\* The ends of the inner try in the reload runs: a throw after one statement, empty
\* results, or one derived statement.
ReloadOutcomes ==
    { [threw |-> TRUE,
       results |-> <<Quad(EthicsNode("A"), EthicsNode("dependsUpon"), EthicsNode("B"))>>],
      [threw |-> FALSE, results |-> <<>>],
      [threw |-> FALSE,
       results |-> <<Quad(EthicsNode("A"), EthicsNode("dependsUpon"), EthicsNode("B"))>>] }

\* The document ethica_<part>.xml of each part.
DocumentOfPart(partNumber) ==
    IF partNumber = 1
    THEN << [id |-> "A", type |-> "definition"], [id |-> "B", type |-> "proposition"] >>
    ELSE << [id |-> "A", type |-> "proof"], [id |-> "B", type |-> "note"] >>

\* The steps of loadData in the reload runs; the document fetched is the one of
\* state.currentPart.
ReloadLoadStep ==
    \/ LoadDocumentOf({DocumentOfPart(currentPart)})
    \/ LoadFactsOf(ReloadContents)
    \/ LoadInferenceOf(ReloadOutcomes)

NextReload ==
    \/ ReloadLoadStep
    \/ HandleElementSelect
    \/ SelectResults
    \/ HandlePartChange

SpecReload == Init /\ [][NextReload]_vars

\* The reload runs when every fetch and the oracle settle: a step of loadData that
\* can be taken is taken.
SpecReloadSettling == SpecReload /\ WF_vars(ReloadLoadStep)

-----------------------------------------------------------------------------
(* The weight analysis on larger asserted stores *)

\* The number of ordered element pairs an asserted store of WeightStores links.
MaxLinks == 4

\* What links one element to another in a store of WeightStores: nothing, a
\* citation, or the three statements of a demonstrated consequence.
LinkBundles ==
    { <<>>, <<"cites">>, <<"necessarilyFollows", "clearlyfollowsFrom", "provedBy">> }

LinkPairs ==
    << <<"A", "A">>, <<"A", "B">>, <<"A", "C">>, <<"B", "A">>, <<"B", "B">>,
       <<"B", "C">>, <<"C", "A">>, <<"C", "B">>, <<"C", "C">> >>

RECURSIVE linkedContent(_, _)
\* The statement list that states, pair by pair, the chosen bundles.
linkedContent(links, k) ==
    IF k > Len(LinkPairs) THEN <<>>
    ELSE [i \in 1..Len(links[k]) |->
            Quad(EthicsNode(LinkPairs[k][1]), EthicsNode(links[k][i]),
                 EthicsNode(LinkPairs[k][2]))]
           \o linkedContent(links, k + 1)

WeightContents ==
    {linkedContent(links, 1) :
       links \in {l \in [1..Len(LinkPairs) -> LinkBundles] :
                    Cardinality({k \in 1..Len(LinkPairs) : l[k] # <<>>}) <= MaxLinks}}

\* The document of the weight analysis runs: each element id with a type.
WeightDocument ==
    << [id |-> "A", type |-> "definition"], [id |-> "B", type |-> "proposition"],
       [id |-> "C", type |-> "note"] >>

\* The application after a load of WeightDocument and an asserted file of
\* WeightContents, the oracle having returned nothing.
InitWeight ==
    /\ \E content \in WeightContents :
         /\ n3Store = parseN3(content)
         /\ load = [pc |-> "done", elements |-> parseXML(WeightDocument),
                    n3Content |-> content, n3Store |-> parseN3(content),
                    oracle |-> "empty"]
    /\ elements = parseXML(WeightDocument)
    /\ eyeStore = EmptyStore
    /\ selectedElement = NULL
    /\ reasoning = <<>>
    /\ transitiveChains = <<>>
    /\ weightAnalysis = NoAnalysis
    /\ loading = FALSE
    /\ currentPart = 1
    /\ selectTask = NoTask
    /\ explorer = NoExplorer
    /\ navigation = NoNavigation

\* The first selection after the load.
FirstSelect == weightAnalysis = NoAnalysis /\ HandleElementSelect

NextWeight ==
    \/ FirstSelect
    \/ SelectResults

SpecWeight == InitWeight /\ [][NextWeight]_vars

-----------------------------------------------------------------------------
(* The three queries called for any element id *)

\* The number of statements of an asserted store of CallContents.
MaxCallQuads == 2

\* The statements of the asserted stores of CallContents: citations and refutations
\* (weights 1 and 1.5) among the elements of the documents.
CallQuads ==
    {Quad(EthicsNode(s), EthicsNode(p), EthicsNode(o)) :
       s \in FileIds, p \in {"cites", "refutedByAbsurdity"}, o \in FileIds}

CallContents == UNION {[1..k -> CallQuads] : k \in 0..MaxCallQuads}

\* What the oracle returned: nothing, or one statement, of a weighted predicate or
\* of a dependency predicate.
CallResults ==
    { <<>>,
      <<Quad(EthicsNode("A"), EthicsNode("cites"), EthicsNode("B"))>>,
      <<Quad(EthicsNode("B"), EthicsNode("refutedByAbsurdity"), EthicsNode("A"))>>,
      <<Quad(EthicsNode("A"), EthicsNode("cites"), EthicsNode("A"))>>,
      <<Quad(EthicsNode("A"), EthicsNode("dependsUpon"), EthicsNode("B"))>> }

\* The documents of the call runs: between them every element type with a base
\* score, and two without one.
CallDocuments ==
    { << [id |-> "A", type |-> "definition"], [id |-> "B", type |-> "axiom"] >>,
      << [id |-> "A", type |-> "proposition"], [id |-> "B", type |-> "corollary"] >>,
      << [id |-> "A", type |-> "proof"], [id |-> "B", type |-> "note"] >>,
      << [id |-> "A", type |-> "lemma"], [id |-> "B", type |-> "explanation"] >> }

\* The application after a load of a document of CallDocuments, an asserted file of
\* CallContents and oracle results of CallResults.
InitCall ==
    /\ \E doc \in CallDocuments, content \in CallContents, results \in CallResults :
         /\ elements = parseXML(doc)
         /\ n3Store = parseN3(content)
         /\ eyeStore = reasonedStore([threw |-> FALSE, results |-> results])
         /\ load = [pc |-> "done", elements |-> parseXML(doc), n3Content |-> content,
                    n3Store |-> parseN3(content),
                    oracle |-> oracleKind([threw |-> FALSE, results |-> results])]
    /\ selectedElement = NULL
    /\ reasoning = <<>>
    /\ transitiveChains = <<>>
    /\ weightAnalysis = NoAnalysis
    /\ loading = FALSE
    /\ currentPart = 1
    /\ selectTask = NoTask
    /\ explorer = NoExplorer
    /\ navigation = NoNavigation

\* handleElementSelect(elementId) called for any element id, once.
CallSelect == weightAnalysis = NoAnalysis /\ HandleElementSelectOf(ElementIds)

NextCall ==
    \/ CallSelect
    \/ SelectResults

SpecCall == InitCall /\ [][NextCall]_vars

-----------------------------------------------------------------------------
(* Vocabulary of the properties *)

AssertedVocabulary ==
    {"cites", "refersTo", "mentions", "clearlyfollowsFrom", "evidentFrom",
     "necessarilyFollows", "provedBy", "demonstratedBy", "groundedIn", "hasCorollary",
     "impliesConsequence", "buildsUpon", "appliesResultFrom", "refutedByAbsurdity",
     "contradicts", "partOf", "containsSection", "containsElement", "type"}

DerivedVocabulary ==
    {"transitivelyDependsOn", "dependsUpon", "circularArgument", "derivedFrom",
     "explainsElement"}

Vocabulary == AssertedVocabulary \cup DerivedVocabulary

\* The URI a statement of vocabulary predicate p carries.
VocabularyTerm(p) ==
    IF p = "type" THEN [ns |-> RDF, local |-> "type"] ELSE [ns |-> ETHICS, local |-> p]

FallbackName(p) == "inverse_" \o p

\* The store the statements of predicate p are read from.
RoutedStore(p) == IF p \in DerivedVocabulary THEN eyeStore ELSE n3Store

\* Record r of query(e) reports statement quad in the outward direction.
ReportsOutward(r, quad, e) ==
    /\ r.subject = e
    /\ r.predicate \in Vocabulary
    /\ quad.subject = [ns |-> ETHICS, local |-> e]
    /\ quad.predicate = VocabularyTerm(r.predicate)
    /\ quad.object.local = r.object

\* Record r of query(e) reports statement quad of predicate p in the inward direction.
ReportsInward(r, quad, p, e) ==
    /\ r.object = e
    /\ r.predicate = inversePredicate(p)
    /\ quad.object = [ns |-> ETHICS, local |-> e]
    /\ quad.predicate = VocabularyTerm(p)
    /\ quad.subject.local = r.subject

\* The indices of a sequence that satisfy a test.
Count(seq, Test(_)) == Cardinality({i \in 1..Len(seq) : Test(seq[i])})

\* The state shows the results of selecting e: SelectResults stored reasoning,
\* transitiveChains and weightAnalysis for e, computed on the installed stores.
Shown(e) == weightAnalysis.elementId = e /\ ~selectTask.pending /\ load.pc = "done"

-----------------------------------------------------------------------------
(* C1..C7: the relationship query and the chain finder *)

\* C1: every record of query(e) reports a stored statement that mentions e: a record
\* with a vocabulary predicate has subject e and reports a statement with subject e,
\* any other record has object e and reports a statement with object e.
C1_QueryMentionsElement ==
    \A e \in ElementIds :
      Shown(e) =>
        \A r \in Range(reasoning) :
          \E quad \in Range(n3Store) \cup Range(eyeStore) :
            IF r.predicate \in Vocabulary
            THEN ReportsOutward(r, quad, e)
            ELSE \E p \in Vocabulary : ReportsInward(r, quad, p, e)

\* C1 witness: the shown query has an outward and an inward record while a store
\* holds a statement that does not mention the selected element.
C1_Witness ==
    \E e \in ElementIds :
      /\ Shown(e)
      /\ \E i, j \in 1..Len(reasoning) :
           /\ reasoning[i].predicate \in Vocabulary
           /\ reasoning[j].predicate \notin Vocabulary
      /\ \E quad \in Range(n3Store) \cup Range(eyeStore) :
           quad.subject.local # e /\ quad.object.local # e

\* C2: query(e) is complete: per vocabulary predicate p, as many outward records as
\* the routed store has statements (e, p, *), and as many inward records as it has
\* statements (*, p, e).
C2_QueryComplete ==
    \A e \in ElementIds : \A p \in Vocabulary :
      LET IsOut(r) == r.predicate = p
          IsIn(r) == r.predicate = inversePredicate(p)
          FromE(quad) == quad.subject = [ns |-> ETHICS, local |-> e]
                           /\ quad.predicate = VocabularyTerm(p)
          ToE(quad) == quad.object = [ns |-> ETHICS, local |-> e]
                         /\ quad.predicate = VocabularyTerm(p)
      IN Shown(e) =>
           /\ Count(reasoning, IsOut) = Count(RoutedStore(p), FromE)
           /\ Count(reasoning, IsIn) = Count(RoutedStore(p), ToE)

\* C2 witness: the shown query has two outward cites records, for two asserted cites
\* statements of the selected element.
C2_Witness ==
    \E e \in ElementIds :
      LET IsCites(r) == r.predicate = "cites"
          CitesOfE(quad) == quad.subject.local = e /\ quad.predicate.local = "cites"
      IN /\ Shown(e)
         /\ Count(n3Store, CitesOfE) = 2
         /\ Count(reasoning, IsCites) = 2

\* C3: an asserted (a, p, b) whose p has a registered inverse name is reported by
\* query(b) under that name and by query(a) under p itself, both not inferred; cites
\* and necessarilyFollows are registered as citedBy and necessarilyFollowedBy.
C3_InverseRewriting ==
    /\ inversePredicate("cites") = "citedBy"
    /\ inversePredicate("necessarilyFollows") = "necessarilyFollowedBy"
    /\ \A a, b \in ElementIds : \A p \in AssertedVocabulary :
         ( /\ [subject |-> [ns |-> ETHICS, local |-> a], predicate |-> VocabularyTerm(p),
               object |-> [ns |-> ETHICS, local |-> b]] \in Range(n3Store)
           /\ inversePredicate(p) # FallbackName(p) )
         => /\ Shown(b) => [subject |-> a, predicate |-> inversePredicate(p),
                             object |-> b, inferred |-> FALSE] \in Range(reasoning)
            /\ Shown(a) => [subject |-> a, predicate |-> p, object |-> b,
                             inferred |-> FALSE] \in Range(reasoning)

\* C3 witness: (A, cites, B) is asserted and the shown query of B has the citedBy record.
C3_Witness ==
    /\ Shown("B")
    /\ Quad(EthicsNode("A"), EthicsNode("cites"), EthicsNode("B")) \in Range(n3Store)
    /\ [subject |-> "A", predicate |-> "citedBy", object |-> "B", inferred |-> FALSE]
         \in Range(reasoning)

\* C4 as stated: every asserted predicate has a registered inverse name, so no
\* record with inferred = false carries the inverse_<predicate> fallback.
C4_Original ==
    \A r \in Range(reasoning) :
      r.inferred = FALSE => r.predicate \notin {FallbackName(p) : p \in Vocabulary}

\* C4 amended: every asserted predicate except type has a registered inverse name;
\* type and the derived predicates have none, so the fallback appears on a record
\* with inferred = false only as inverse_type, and otherwise only on inferred records.
C4_FallbackOnlyForTypeAndDerived ==
    /\ \A p \in AssertedVocabulary \ {"type"} : inversePredicate(p) # FallbackName(p)
    /\ \A p \in DerivedVocabulary \cup {"type"} : inversePredicate(p) = FallbackName(p)
    /\ \A r \in Range(reasoning) :
         r.predicate \in {FallbackName(p) : p \in Vocabulary}
           => \/ r.predicate = "inverse_type" /\ r.inferred = FALSE
              \/ /\ r.predicate \in {FallbackName(p) : p \in DerivedVocabulary}
                 /\ r.inferred = TRUE

\* C4 witness: the shown query reports an rdf:type statement about the selected
\* element as inverse_type, not inferred, and a partOf statement as contains.
C4_Witness ==
    \E e \in ElementIds :
      /\ Shown(e)
      /\ \E i \in 1..Len(reasoning) :
           reasoning[i].predicate = "inverse_type" /\ reasoning[i].inferred = FALSE
      /\ \E i \in 1..Len(reasoning) : reasoning[i].predicate = "contains"

\* C5: a record is inferred exactly when its predicate (before renaming) is a derived
\* one; an inferred record reports a statement of the derived store and any other
\* record a statement of the asserted store, so a statement held only by the store
\* its predicate is not routed to is never reported.
C5_InferredIffDerived ==
    \A e \in ElementIds :
      Shown(e) =>
        \A r \in Range(reasoning) :
          LET store == IF r.inferred THEN eyeStore ELSE n3Store
              family == IF r.inferred THEN DerivedVocabulary ELSE AssertedVocabulary
          IN \E quad \in Range(store) :
               \/ r.predicate \in family /\ ReportsOutward(r, quad, e)
               \/ \E p \in family : ReportsInward(r, quad, p, e)

\* C5 witness: the asserted store holds a derived-predicate statement about the
\* selected element, the derived store an asserted-predicate one, and the shown
\* query reports neither.
C5_Witness ==
    \E e \in ElementIds :
      /\ Shown(e)
      /\ \E quad \in Range(n3Store) :
           quad.subject.local = e /\ quad.predicate.local \in DerivedVocabulary
      /\ \E quad \in Range(eyeStore) :
           quad.object.local = e /\ quad.predicate.local = "cites"
      /\ reasoning = <<>>

DependencyPredicates == {"transitivelyDependsOn", "dependsUpon"}

\* The type tag of a chain record, by predicate and direction.
ChainType(p, outward) ==
    IF p = "transitivelyDependsOn"
    THEN (IF outward THEN "transitive_dependency" ELSE "inverse_transitive_dependency")
    ELSE (IF outward THEN "dependency" ELSE "inverse_dependency")

\* C7 as stated: findChains(e) has exactly one record per derived statement of a
\* dependency predicate whose subject or object is e.
C7_Original ==
    \A e \in ElementIds :
      LET Mentions(quad) == /\ quad.predicate.ns = ETHICS
                            /\ quad.predicate.local \in DependencyPredicates
                            /\ (quad.subject = [ns |-> ETHICS, local |-> e]
                                  \/ quad.object = [ns |-> ETHICS, local |-> e])
      IN Shown(e) => Len(transitiveChains) = Count(eyeStore, Mentions)

\* C7 amended: findChains(e) has exactly one record per match and nothing else: per
\* dependency predicate, one outward record for each derived statement with subject
\* e and one inward record for each derived statement with object e (so a statement
\* (e, p, e) gives two records).  Each record is inferred, has a one-edge path equal
\* to (start, relationship, end), start = e if outward and end = e if inward, and the
\* type tag of its predicate and direction; the asserted store is not read, and an
\* empty derived store gives [].
C7_OneChainPerMatch ==
    \A e \in ElementIds :
      Shown(e) =>
        /\ \A c \in Range(transitiveChains) :
             /\ c.inferred = TRUE
             /\ c.relationship \in DependencyPredicates
             /\ c.path = <<[from |-> c.start, to |-> c.end,
                            relationship |-> c.relationship]>>
             /\ \/ /\ c.type = ChainType(c.relationship, TRUE)
                   /\ c.start = e
                \/ /\ c.type = ChainType(c.relationship, FALSE)
                   /\ c.end = e
             /\ [subject |-> [ns |-> ETHICS, local |-> c.start],
                 predicate |-> [ns |-> ETHICS, local |-> c.relationship],
                 object |-> [ns |-> ETHICS, local |-> c.end]] \in Range(eyeStore)
        /\ \A p \in DependencyPredicates :
             LET OutTag(c) == c.type = ChainType(p, TRUE)
                 InTag(c) == c.type = ChainType(p, FALSE)
                 FromE(quad) == /\ quad.subject = [ns |-> ETHICS, local |-> e]
                                /\ quad.predicate = [ns |-> ETHICS, local |-> p]
                 ToE(quad) == /\ quad.object = [ns |-> ETHICS, local |-> e]
                              /\ quad.predicate = [ns |-> ETHICS, local |-> p]
             IN /\ Count(transitiveChains, OutTag) = Count(eyeStore, FromE)
                /\ Count(transitiveChains, InTag) = Count(eyeStore, ToE)
        /\ eyeStore = <<>> => transitiveChains = <<>>

\* C7 witness: the derived store holds (e, dependsUpon, e), the asserted store a
\* transitivelyDependsOn statement of e, and the shown chains of e are the two
\* records of the derived statement.
C7_Witness ==
    \E e \in ElementIds :
      /\ Shown(e)
      /\ Quad(EthicsNode(e), EthicsNode("dependsUpon"), EthicsNode(e)) \in Range(eyeStore)
      /\ \E quad \in Range(n3Store) :
           quad.subject.local = e /\ quad.predicate.local = "transitivelyDependsOn"
      /\ Len(transitiveChains) = 2
      /\ transitiveChains[1].type = "dependency"
      /\ transitiveChains[2].type = "inverse_dependency"

-----------------------------------------------------------------------------
(* C9, C10: the weight analysis *)

\* The element ids of a store's statements, with e.
IdsWith(e, store) ==
    {e} \cup {store[i].subject.local : i \in 1..Len(store)}
        \cup {store[i].object.local : i \in 1..Len(store)}

RECURSIVE PowerSum(_, _)
\* 1 + m + m^2 + ... + m^n
PowerSum(m, n) == IF n = 0 THEN 1 ELSE 1 + m * PowerSum(m, n - 1)

\* C9: analyze(e) terminates on every asserted store, cycles and self-loops
\* included: the transitive-influence recursion returns after at most one call per
\* statement plus one, never nested deeper than depth 5; the dependency-depth
\* recursion returns with its nesting bounded by the number of element ids plus one
\* and its calls by 1 + m + ... + m^n for m statements and n element ids.
C9_AnalyzeTerminates ==
    \A e \in ElementIds :
      Shown(e) =>
        LET influence == influenceRun(e, n3Store)
            depth == depthRun(e, n3Store)
            n == Cardinality(IdsWith(e, n3Store))
        IN /\ ~influence.run.exhausted
           /\ influence.run.calls <= 1 + Len(n3Store)
           /\ influence.run.nesting <= 6
           /\ weightAnalysis.transitiveInfluence = influence.value
           /\ ~depth.run.exhausted
           /\ depth.run.nesting <= n + 1
           /\ depth.run.calls <= PowerSum(Len(n3Store), n)
           /\ weightAnalysis.dependencyDepth = depth.value

\* C9 witness: the asserted store is the cycle (A, necessarilyFollows, B),
\* (B, necessarilyFollows, A), or holds a self-loop, and the analysis of an element
\* on it is shown.
C9_Witness ==
    \E e \in ElementIds :
      /\ Shown(e)
      /\ \/ /\ Quad(EthicsNode("A"), EthicsNode("necessarilyFollows"), EthicsNode("B"))
                 \in Range(n3Store)
            /\ Quad(EthicsNode("B"), EthicsNode("necessarilyFollows"), EthicsNode("A"))
                 \in Range(n3Store)
         \/ Quad(EthicsNode(e), EthicsNode("cites"), EthicsNode(e)) \in Range(n3Store)
      /\ weightAnalysis.dependencyDepth >= 1
      /\ weightAnalysis.transitiveInfluence > 0

\* The asserted store with the statement (x, p, e) added.
WithStatement(x, p, e) ==
    addQuad(n3Store, Quad(EthicsNode(x), EthicsNode(p), EthicsNode(e)))

\* The foundational score of e on a store.
ScoreOn(e, store) ==
    foundationalScore(elementType(e, elements), inboundWeight(e, store),
                      outboundWeight(e, store), influenceRun(e, store).value)

\* The largest increase of inbound weight (in halves) C10 is checked for.
MaxIncrease == 12

\* C10 as stated, at the store level: adding one statement (x, p, e) of a weighted
\* predicate never decreases the foundational score of e.
C10_Original ==
    \A e \in ElementIds :
      Shown(e) =>
        \A x \in ElementIds : \A p \in Range(weightedPredicates) :
          ScoreLeq(weightAnalysis.foundationalScore, ScoreOn(e, WithStatement(x, p, e)))

\* C10 amended: for a fixed element type, outbound weight and transitive influence
\* the foundational score is non-decreasing in the inbound weight; adding one
\* statement (x, p, e) of a weighted predicate never decreases the inbound weight of
\* e, and it decreases the foundational score of e only if it decreases the
\* transitive influence of e.
C10_ScoreMonotoneInInbound ==
    \A e \in ElementIds :
      Shown(e) =>
        LET type == elementType(e, elements)
            inW == weightAnalysis.inboundWeight
            outW == weightAnalysis.outboundWeight
            influence == weightAnalysis.transitiveInfluence
        IN /\ weightAnalysis.foundationalScore
                = foundationalScore(type, inW, outW, influence)
           /\ \A d \in 0..MaxIncrease :
                /\ ScoreLeq(foundationalScore(type, inW, outW, influence),
                            foundationalScore(type, inW + d, outW, influence))
                /\ ScoreLeq(foundationalScore(type, d, outW, influence),
                            foundationalScore(type, d + 1, outW, influence))
           /\ \A x \in ElementIds : \A p \in Range(weightedPredicates) :
                \A added \in {WithStatement(x, p, e)} :
                  \A inW2 \in {inboundWeight(e, added)} :
                    \A influence2 \in {influenceRun(e, added).value} :
                      /\ inW2 >= inW
                      /\ influence2 >= influence
                           => ScoreLeq(weightAnalysis.foundationalScore,
                                       foundationalScore(type, inW2,
                                                         outboundWeight(e, added),
                                                         influence2))

\* C10 witness: the shown element depends on more than depends on it, so its ratio
\* bonus is below 5, and one more statement about it raises its inbound weight and,
\* the transitive influence not falling, its score.
C10_Witness ==
    \E e \in ElementIds :
      /\ Shown(e)
      /\ weightAnalysis.inboundWeight > 0
      /\ weightAnalysis.outboundWeight > weightAnalysis.inboundWeight
      /\ \E x \in ElementIds :
           /\ inboundWeight(e, WithStatement(x, "cites", e)) > weightAnalysis.inboundWeight
           /\ influenceRun(e, WithStatement(x, "cites", e)).value
                >= weightAnalysis.transitiveInfluence
           /\ ~ScoreLeq(ScoreOn(e, WithStatement(x, "cites", e)),
                        weightAnalysis.foundationalScore)

-----------------------------------------------------------------------------
(* C11, C12: what the weight analysis reads, and ids no input mentions *)

\* C11: analyze reads only the asserted store and the catalog: whatever the derived
\* store holds, the shown analysis of e is the analysis of e on the asserted store
\* with an empty derived store.
C11_AnalyzeReadsAssertedOnly ==
    \A e \in ElementIds :
      Shown(e) =>
        weightAnalysis =
          analyzeElementWeight(e, weightStore(n3Store, EmptyStore), elements)

\* C11 witness: the derived store holds a citation of e that the asserted store
\* lacks, and the shown analysis of e has no inbound weight.
C11_Witness ==
    \E e \in ElementIds :
      /\ Shown(e)
      /\ \E quad \in Range(eyeStore) :
           /\ quad.predicate = [ns |-> ETHICS, local |-> "cites"]
           /\ quad.object = [ns |-> ETHICS, local |-> e]
           /\ quad \notin Range(n3Store)
      /\ weightAnalysis.inboundWeight = 0

\* Element id e occurs in no statement of either store and not in the catalog.
Unmentioned(e) ==
    /\ e \notin DOMAIN elements
    /\ \A quad \in Range(n3Store) \cup Range(eyeStore) :
         quad.subject.local # e /\ quad.object.local # e

\* C12: for an element id that no statement and no catalog entry mentions, query(e)
\* and findChains(e) return empty lists and analyze(e) returns a result whose
\* weights, influence and depth are 0 and whose breakdown is empty.
C12_UnmentionedIdGivesEmptyResults ==
    \A e \in ElementIds :
      (Shown(e) /\ Unmentioned(e)) =>
        /\ reasoning = <<>>
        /\ transitiveChains = <<>>
        /\ weightAnalysis.inboundWeight = 0
        /\ weightAnalysis.outboundWeight = 0
        /\ weightAnalysis.transitiveInfluence = 0
        /\ weightAnalysis.dependencyDepth = 0
        /\ DOMAIN weightAnalysis.relationshipBreakdown = {}

\* C12 witness: the results of C are shown while both stores hold statements and the
\* catalog has elements, none of them C.
C12_Witness ==
    /\ Shown("C")
    /\ Unmentioned("C")
    /\ n3Store # <<>>
    /\ eyeStore # <<>>
    /\ DOMAIN elements # {}
    /\ selectedElement = "C"

-----------------------------------------------------------------------------
(* The command-line explorer: its graph and two of its reports *)

\* The names that occur in the explorer's files.
SpelledIds ==
    {"A", "B", "C", "P", "Q", "Proof", "Proposition",
     "I.prop.1", "I.prop.11", "II.prop.1",
     "I.prop.1.proof1", "I.prop.1.proof2",
     "I.prop.11.proof1", "I.prop.11.proof2", "I.prop.11.proof3",
     "II.prop.1.proof1", "II.prop.1.proof2"}

\* The characters of a name, for the operations that look inside a string.
Spelling(id) ==
    CASE
          id = "A" -> <<"A">>
      [] id = "B" -> <<"B">>
      [] id = "C" -> <<"C">>
      [] id = "P" -> <<"P">>
      [] id = "Q" -> <<"Q">>
      [] id = "Proof" -> <<"P", "r", "o", "o", "f">>
      [] id = "Proposition" -> <<"P", "r", "o", "p", "o", "s", "i", "t", "i", "o", "n">>
      [] id = "I.prop.1" -> <<"I", ".", "p", "r", "o", "p", ".", "1">>
      [] id = "I.prop.11" -> <<"I", ".", "p", "r", "o", "p", ".", "1", "1">>
      [] id = "II.prop.1" -> <<"I", "I", ".", "p", "r", "o", "p", ".", "1">>
      [] id = "I.prop.1.proof1" -> <<"I", ".", "p", "r", "o", "p", ".", "1", ".", "p", "r", "o", "o", "f", "1">>
      [] id = "I.prop.1.proof2" -> <<"I", ".", "p", "r", "o", "p", ".", "1", ".", "p", "r", "o", "o", "f", "2">>
      [] id = "I.prop.11.proof1" -> <<"I", ".", "p", "r", "o", "p", ".", "1", "1", ".", "p", "r", "o", "o", "f", "1">>
      [] id = "I.prop.11.proof2" -> <<"I", ".", "p", "r", "o", "p", ".", "1", "1", ".", "p", "r", "o", "o", "f", "2">>
      [] id = "I.prop.11.proof3" -> <<"I", ".", "p", "r", "o", "p", ".", "1", "1", ".", "p", "r", "o", "o", "f", "3">>
      [] id = "II.prop.1.proof1" -> <<"I", "I", ".", "p", "r", "o", "p", ".", "1", ".", "p", "r", "o", "o", "f", "1">>
      [] id = "II.prop.1.proof2" -> <<"I", "I", ".", "p", "r", "o", "p", ".", "1", ".", "p", "r", "o", "o", "f", "2">>

\* The name with the given characters.
Named(chars) == CHOOSE id \in SpelledIds : Spelling(id) = chars

Digits == {"0", "1", "2", "3", "4", "5", "6", "7", "8", "9"}

\* The number of characters of chars from position i on that \d+ takes.
RECURSIVE digitRun(_, _)
digitRun(chars, i) ==
    IF i <= Len(chars) /\ chars[i] \in Digits THEN 1 + digitRun(chars, i + 1) ELSE 0

NoMatch == [matched |-> FALSE, group |-> NULL]

\* Mutant of propMatch: the pattern takes one digit only (\d for \d+).
propMatchOneDigit(proofId) ==
    LET chars == Spelling(proofId)
        literal == <<"I", ".", "p", "r", "o", "p", ".">>
    IN IF /\ Len(chars) > Len(literal)
          /\ SubSeq(chars, 1, Len(literal)) = literal
          /\ chars[Len(literal) + 1] \in Digits
       THEN [matched |-> TRUE, group |-> Named(SubSeq(chars, 1, Len(literal) + 1))]
       ELSE NoMatch

\* proofId.match(/^(I\.prop\.\d+)/): the literal I.prop. at the start and then the
\* longest run of digits, at least one; the group is the text matched.
propMatch(proofId) ==
    LET chars == Spelling(proofId)
        literal == <<"I", ".", "p", "r", "o", "p", ".">>
    IN IF /\ Len(chars) > Len(literal)
          /\ SubSeq(chars, 1, Len(literal)) = literal
          /\ chars[Len(literal) + 1] \in Digits
       THEN [matched |-> TRUE,
             group |-> Named(SubSeq(chars, 1,
                                    Len(literal) + digitRun(chars, Len(literal) + 1)))]
       ELSE NoMatch

\* counts.set(key, (counts.get(key) || 0) + 1) on a Map, kept as its entries
\* <<key, count>> in insertion order.
countOne(counts, key) ==
    IF \E i \in 1..Len(counts) : counts[i][1] = key
    THEN [i \in 1..Len(counts) |->
            IF counts[i][1] = key THEN <<key, counts[i][2] + 1>> ELSE counts[i]]
    ELSE Append(counts, <<key, 1>>)

\* The citationCounts Map after citations.forEach, from the given Map on.
RECURSIVE tallyCited(_, _)
tallyCited(counts, quads) ==
    IF quads = <<>> THEN counts
    ELSE tallyCited(countOne(counts, stripEthics(Head(quads).object)), Tail(quads))

\* The proofCounts Map after proofs.forEach, from the given Map on.
RECURSIVE tallyProofs(_, _)
tallyProofs(counts, proofs) ==
    IF proofs = <<>> THEN counts
    ELSE LET m == propMatch(stripEthics(Head(proofs).subject))
         IN tallyProofs(IF m.matched THEN countOne(counts, m.group) ELSE counts,
                        Tail(proofs))

\* Mutant of sortDescending: an entry is put before the entries of the same count.
RECURSIVE sortDescendingUnstable(_)
sortDescendingUnstable(entries) ==
    IF entries = <<>> THEN <<>>
    ELSE LET sorted == sortDescendingUnstable(SubSeq(entries, 1, Len(entries) - 1))
             entry == entries[Len(entries)]
             k == Cardinality({i \in 1..Len(sorted) : sorted[i][2] > entry[2]})
         IN SubSeq(sorted, 1, k) \o <<entry>> \o SubSeq(sorted, k + 1, Len(sorted))

\* entries.sort((a, b) => b[1] - a[1]): by count, descending; the sort is stable, so
\* entries of the same count keep their order.
RECURSIVE sortDescending(_)
sortDescending(entries) ==
    IF entries = <<>> THEN <<>>
    ELSE LET sorted == sortDescending(SubSeq(entries, 1, Len(entries) - 1))
             entry == entries[Len(entries)]
             k == Cardinality({i \in 1..Len(sorted) : sorted[i][2] >= entry[2]})
         IN SubSeq(sorted, 1, k) \o <<entry>> \o SubSeq(sorted, k + 1, Len(sorted))

\* array.slice(0, end) for end >= 0.
slice(array, end) == SubSeq(array, 1, IF end < Len(array) THEN end ELSE Len(array))

\* getMostCitedElements(topN): what it returns on the given store.
getMostCitedElements(store, topN) ==
    LET counts == tallyCited(<<>>, citations(store))
    IN slice(sortDescending(counts), topN)

\* getPropositionsWithMultipleProofs(): what it returns on the given store.
getPropositionsWithMultipleProofs(store) ==
    LET proofs == getQuads(store, NullTerm, RdfTypeNode, EthicsNode("Proof"))
        proofCounts == tallyProofs(<<>>, proofs)
        several(entry) == entry[2] > 1
    IN sortDescending(SelectSeq(proofCounts, several))

\* Lengths of the explorer's files, and the largest topN asked for.
MaxCitations == 4
MaxProofs == 5
MaxTopN == 3

\* The statements of a citation file: who cites whom, and one statement of another
\* predicate.
CitationStatements ==
    { Quad(EthicsNode(x), EthicsNode("cites"), EthicsNode(y)) :
        x \in {"P", "Q"}, y \in {"A", "B", "C"} }
    \cup { Quad(EthicsNode("P"), RdfTypeNode, EthicsNode("Proof")) }

CitationFiles == UNION {[1..k -> CitationStatements] : k \in 0..MaxCitations}

\* The statements of a proof file in the order of the file: the types of the proofs
\* of three propositions of two parts, the type of a proposition and a citation.
ProofListing ==
    << Quad(EthicsNode("I.prop.1.proof1"), RdfTypeNode, EthicsNode("Proof")),
       Quad(EthicsNode("II.prop.1.proof1"), RdfTypeNode, EthicsNode("Proof")),
       Quad(EthicsNode("I.prop.11.proof1"), RdfTypeNode, EthicsNode("Proof")),
       Quad(EthicsNode("I.prop.11"), RdfTypeNode, EthicsNode("Proposition")),
       Quad(EthicsNode("I.prop.1.proof2"), RdfTypeNode, EthicsNode("Proof")),
       Quad(EthicsNode("I.prop.11.proof2"), RdfTypeNode, EthicsNode("Proof")),
       Quad(EthicsNode("I.prop.11.proof1"), EthicsNode("cites"), EthicsNode("I.prop.1")),
       Quad(EthicsNode("II.prop.1.proof2"), RdfTypeNode, EthicsNode("Proof")),
       Quad(EthicsNode("I.prop.11.proof3"), RdfTypeNode, EthicsNode("Proof")) >>

\* The statements of the listing at the chosen positions, in the listing's order.
RECURSIVE chosenOf(_, _)
chosenOf(listing, positions) ==
    IF listing = <<>> THEN <<>>
    ELSE LET rest == chosenOf(SubSeq(listing, 1, Len(listing) - 1), positions)
         IN IF Len(listing) \in positions THEN Append(rest, listing[Len(listing)])
            ELSE rest

ProofFiles ==
    { chosenOf(ProofListing, positions) :
        positions \in {ps \in SUBSET (1..Len(ProofListing)) : Cardinality(ps) <= MaxProofs} }

ExplorerFiles == CitationFiles \cup ProofFiles

\* loadGraph(): the parser hands the statements of the file to store.addQuad one
\* by one and then resolves, or it reports an error after some of them and the
\* promise is rejected with those statements left in the store (for a file of the
\* given set).
LoadGraphOf(files) ==
    /\ explorer = NoExplorer
    /\ \E n3Content \in files :
         \/ explorer' = [explorer EXCEPT !.loaded = TRUE,
                                         !.store = parseInto(explorer.store, n3Content)]
         \/ \E k \in 1..Len(n3Content) :
              explorer' = [explorer EXCEPT
                             !.store = parseInto(explorer.store,
                                                 SubSeq(n3Content, 1, k - 1))]
    /\ UNCHANGED <<elements, n3Store, eyeStore, selectedElement, reasoning,
                   transitiveChains, weightAnalysis, loading, currentPart, load,
                   selectTask, navigation>>

LoadGraph == LoadGraphOf(ExplorerFiles)

\* getMostCitedElements(topN) after the graph is loaded.
GetMostCitedElements ==
    /\ explorer.loaded
    /\ \E topN \in 0..MaxTopN :
         explorer' = [explorer EXCEPT
                        !.report = [name |-> "mostCited", topN |-> topN,
                                    rows |-> getMostCitedElements(explorer.store, topN)]]
    /\ UNCHANGED <<elements, n3Store, eyeStore, selectedElement, reasoning,
                   transitiveChains, weightAnalysis, loading, currentPart, load,
                   selectTask, navigation>>

\* getPropositionsWithMultipleProofs() after the graph is loaded.
GetPropositionsWithMultipleProofs ==
    /\ explorer.loaded
    /\ explorer' = [explorer EXCEPT
                      !.report = [name |-> "multipleProofs", topN |-> 0,
                                  rows |-> getPropositionsWithMultipleProofs(
                                             explorer.store)]]
    /\ UNCHANGED <<elements, n3Store, eyeStore, selectedElement, reasoning,
                   transitiveChains, weightAnalysis, loading, currentPart, load,
                   selectTask, navigation>>

NextExplorer ==
    \/ LoadGraph
    \/ GetMostCitedElements
    \/ GetPropositionsWithMultipleProofs

SpecExplorer == Init /\ [][NextExplorer]_vars

-----------------------------------------------------------------------------
(* The command-line explorer: the dependency chain of an element *)

\* The local names of the objects of the statements.
objectsOf(quads) == [i \in 1..Len(quads) |-> stripEthics(quads[i].object)]

\* store.getQuads(namedNode(ethics#element), namedNode(ethics#cites), null)
citesFrom(store, element) ==
    getQuads(store, EthicsNode(element), EthicsNode("cites"), NullTerm)

RECURSIVE subElementDependencies(_, _)
\* The subElements.forEach: for each (sub, partOf, element) statement in turn, what
\* sub cites.
subElementDependencies(store, subElements) ==
    IF subElements = <<>> THEN <<>>
    ELSE objectsOf(citesFrom(store, stripEthics(Head(subElements).subject)))
           \o subElementDependencies(store, Tail(subElements))

\* Mutant of traceDependencies: what the sub-elements cite is followed in any case.
traceDependenciesWithSubElements(store, element) ==
    objectsOf(citesFrom(store, element))
      \o subElementDependencies(
           store, getQuads(store, NullTerm, EthicsNode("partOf"), EthicsNode(element)))

\* The elements trace(element, depth) goes on to, in order: what the element cites,
\* or, if it cites nothing, what its partOf sub-elements cite.
traceDependencies(store, element) ==
    IF Len(citesFrom(store, element)) = 0
    THEN subElementDependencies(
             store, getQuads(store, NullTerm, EthicsNode("partOf"), EthicsNode(element)))
    ELSE objectsOf(citesFrom(store, element))

\* const visited = new Set(), and nothing printed yet.
NewTrace == [visited |-> {}, log |-> <<>>, calls |-> 0, exhausted |-> FALSE]

RECURSIVE trace(_, _, _, _, _)
RECURSIVE traceEach(_, _, _, _, _)

\* trace(element, depth): the run after it, with the elements printed (each with
\* its depth), the visited set shared by all calls, and the number of calls.
trace(element, depth, run, maxDepth, store) ==
    LET entered == [run EXCEPT !.calls = @ + 1]
    IN IF depth >= RecursionFuel THEN [entered EXCEPT !.exhausted = TRUE]
       ELSE IF depth > maxDepth \/ element \in run.visited THEN entered
       ELSE traceEach(traceDependencies(store, element), depth,
                      [entered EXCEPT !.visited = @ \cup {element},
                                      !.log = Append(@, <<element, depth>>)],
                      maxDepth, store)

\* The forEach over the dependencies: trace(dependency, depth + 1) for each.
traceEach(dependencies, depth, run, maxDepth, store) ==
    IF dependencies = <<>> THEN run
    ELSE traceEach(Tail(dependencies), depth,
                   trace(Head(dependencies), depth + 1, run, maxDepth, store),
                   maxDepth, store)

\* traceDependencyChain(startElement, maxDepth)
traceDependencyChain(store, startElement, maxDepth) ==
    trace(startElement, 0, NewTrace, maxDepth, store)

\* The largest maxDepth asked for.
MaxTraceDepth == 2

\* The statements of a file of the trace runs, in the order of the file: citations
\* with two cycles and a self-citation, and sub-elements P and Q with citations.
TraceListing ==
    << Quad(EthicsNode("A"), EthicsNode("cites"), EthicsNode("B")),
       Quad(EthicsNode("B"), EthicsNode("cites"), EthicsNode("C")),
       Quad(EthicsNode("C"), EthicsNode("cites"), EthicsNode("A")),
       Quad(EthicsNode("A"), EthicsNode("cites"), EthicsNode("C")),
       Quad(EthicsNode("B"), EthicsNode("cites"), EthicsNode("B")),
       Quad(EthicsNode("P"), EthicsNode("partOf"), EthicsNode("C")),
       Quad(EthicsNode("P"), EthicsNode("cites"), EthicsNode("B")),
       Quad(EthicsNode("Q"), EthicsNode("partOf"), EthicsNode("C")),
       Quad(EthicsNode("Q"), EthicsNode("cites"), EthicsNode("A")),
       Quad(EthicsNode("Q"), EthicsNode("partOf"), EthicsNode("A")),
       Quad(EthicsNode("Q"), EthicsNode("cites"), EthicsNode("Q")) >>

TraceFiles == {chosenOf(TraceListing, positions) : positions \in SUBSET (1..Len(TraceListing))}

TraceElements == {"A", "B", "C", "P", "Q"}

\* traceDependencyChain(startElement, maxDepth) after the graph is loaded.
TraceDependencyChain ==
    /\ explorer.loaded
    /\ \E startElement \in TraceElements, maxDepth \in 0..MaxTraceDepth :
         explorer' = [explorer EXCEPT
                        !.report = [name |-> "trace", topN |-> maxDepth,
                                    rows |-> [start |-> startElement,
                                              run |-> traceDependencyChain(
                                                        explorer.store, startElement,
                                                        maxDepth)]]]
    /\ UNCHANGED <<elements, n3Store, eyeStore, selectedElement, reasoning,
                   transitiveChains, weightAnalysis, loading, currentPart, load,
                   selectTask, navigation>>

NextTrace ==
    \/ LoadGraphOf(TraceFiles)
    \/ TraceDependencyChain

SpecTrace == Init /\ [][NextTrace]_vars

-----------------------------------------------------------------------------
(* Navigation to an element from the reasoning panel *)

\* string.startsWith(prefix), on the characters of the string.
startsWith(chars, prefix) ==
    Len(chars) >= Len(prefix) /\ SubSeq(chars, 1, Len(prefix)) = prefix

\* elementId.startsWith('I.') ? 1 : elementId.startsWith('II.') ? 2 : currentPart
elementPart(elementId, part) ==
    IF startsWith(Spelling(elementId), <<"I", ".">>) THEN 1
    ELSE IF startsWith(Spelling(elementId), <<"I", "I", ".">>) THEN 2
    ELSE part

\* The elements the panel offers to navigate to.
NavigationTargets == {"I.prop.1", "II.prop.1", "A"}

\* The document ethica_<part>.xml of each part in the navigation runs.
NavigationDocumentOfPart(partNumber) ==
    IF partNumber = 1
    THEN << [id |-> "I.prop.1", type |-> "proposition"], [id |-> "A", type |-> "note"] >>
    ELSE << [id |-> "II.prop.1", type |-> "proposition"] >>

\* document.querySelector(`[data-element-id="${elementId}"]`): BookView has the
\* elements of state.elements in the document unless the loading screen is shown.
querySelector(elementId) == ~loading /\ elementId \in DOMAIN elements

\* Mutant of retryAllowed: the comparison is <=.
retryAllowedOnceMore(attempts) == attempts <= 10

\* attempts < 10
retryAllowed(attempts) == attempts < 10

\* handleNavigateToElement(elementId), called from the reasoning panel.  For an
\* element of another part the part is switched (which starts loadData) and the
\* first attemptNavigation is set to run after 100 ms; it will call the
\* handleElementSelect of this render.  For an element of the current part that is
\* in the document, handleElementSelect is called at once.  (One timer chain at a
\* time.)
HandleNavigateToElement ==
    /\ ~loading
    /\ ~selectTask.pending
    /\ ~navigation.active
    /\ selectedElement # NULL \/ Len(reasoning) > 0
    /\ \E elementId \in NavigationTargets :
         IF elementPart(elementId, currentPart) # currentPart
         THEN /\ currentPart' = elementPart(elementId, currentPart)
              /\ selectedElement' = NULL
              /\ reasoning' = <<>>
              /\ transitiveChains' = <<>>
              /\ weightAnalysis' = NoAnalysis
              /\ loading' = TRUE
              /\ load' = NoLoad("xml")
              /\ navigation' = [active |-> TRUE, elementId |-> elementId, attempts |-> 0,
                                lookups |-> 0, delay |-> 100, found |-> FALSE,
                                elements |-> elements, n3Store |-> n3Store,
                                eyeStore |-> eyeStore]
              /\ UNCHANGED <<elements, n3Store, eyeStore, selectTask, explorer>>
         ELSE /\ querySelector(elementId)
              /\ selectedElement' = elementId
              /\ selectTask' = [pending |-> TRUE, elementId |-> elementId,
                                elements |-> elements, n3Store |-> n3Store,
                                eyeStore |-> eyeStore]
              /\ UNCHANGED <<elements, n3Store, eyeStore, reasoning, transitiveChains,
                             weightAnalysis, loading, currentPart, load, explorer,
                             navigation>>

\* attemptNavigation(attempts), when its timer fires: the element is looked up; if
\* it is in the document it is selected, by the handleElementSelect of the render
\* that started the navigation; if not, the next attempt is set to run after
\* 50 * (attempts + 1) ms while attempts < 10, and after that nothing more happens.
AttemptNavigation ==
    /\ navigation.active
    /\ ~selectTask.pending
    /\ IF querySelector(navigation.elementId)
       THEN /\ selectedElement' = navigation.elementId
            /\ selectTask' = [pending |-> TRUE, elementId |-> navigation.elementId,
                              elements |-> navigation.elements,
                              n3Store |-> navigation.n3Store,
                              eyeStore |-> navigation.eyeStore]
            /\ navigation' = [navigation EXCEPT !.active = FALSE, !.lookups = @ + 1,
                                                !.found = TRUE]
       ELSE /\ IF retryAllowed(navigation.attempts)
               THEN navigation' = [navigation EXCEPT
                                     !.attempts = @ + 1, !.lookups = @ + 1,
                                     !.delay = 50 * (navigation.attempts + 1)]
               ELSE navigation' = [navigation EXCEPT !.active = FALSE, !.lookups = @ + 1]
            /\ UNCHANGED <<selectedElement, selectTask>>
    /\ UNCHANGED <<elements, n3Store, eyeStore, reasoning, transitiveChains,
                   weightAnalysis, loading, currentPart, load, explorer>>

\* The steps of loadData in the navigation runs.
NavigationLoadStep ==
    \/ LoadDocumentOf({NavigationDocumentOfPart(currentPart)})
    \/ LoadFactsOf(ReloadContents)
    \/ LoadInferenceOf(ReloadOutcomes)

NextNavigation ==
    \/ NavigationLoadStep
    \/ HandleElementSelect
    \/ SelectResults
    \/ HandleNavigateToElement
    \/ AttemptNavigation

SpecNavigation == Init /\ [][NextNavigation]_vars

-----------------------------------------------------------------------------
(* The weight analysis on long chains, shortcuts and cycles *)

\* The number of statements of the dependency chain of a store of DeepContents.
ChainLength == 6

\* The element ids of the chain, the founding element first.
DeepIds == <<"A", "B", "C", "D", "E", "F", "G", "H">>

DeepElementIds == {DeepIds[i] : i \in 1..(ChainLength + 1)}

\* The statements a store of DeepContents is chosen from, in the order of the file:
\* the chain (each element cites the one before it), a second statement beside the
\* first of the chain, a shortcut to the founding element, statements that close
\* cycles, and a statement of a predicate without weight.
DeepListing ==
    << Quad(EthicsNode("D"), EthicsNode("refutedByAbsurdity"), EthicsNode("A")),
       Quad(EthicsNode("A"), EthicsNode("cites"), EthicsNode("A")) >>
      \o [i \in 1..ChainLength |->
            Quad(EthicsNode(DeepIds[i + 1]), EthicsNode("cites"), EthicsNode(DeepIds[i]))]
      \o << Quad(EthicsNode("B"), EthicsNode("provedBy"), EthicsNode("A")),
            Quad(EthicsNode("A"), EthicsNode("buildsUpon"), EthicsNode("B")),
            Quad(EthicsNode("A"), EthicsNode("cites"), EthicsNode(DeepIds[ChainLength + 1])),
            Quad(EthicsNode("C"), EthicsNode("partOf"), EthicsNode("A")) >>

DeepContents == {chosenOf(DeepListing, positions) : positions \in SUBSET (1..Len(DeepListing))}

\* The document of the runs on DeepContents: the first elements with a type.
DeepDocument ==
    << [id |-> "A", type |-> "definition"], [id |-> "B", type |-> "proposition"],
       [id |-> "C", type |-> "proof"] >>

\* The application after a load of DeepDocument and an asserted file of
\* DeepContents, the oracle having returned nothing.
InitDeep ==
    /\ \E content \in DeepContents :
         /\ n3Store = parseN3(content)
         /\ load = [pc |-> "done", elements |-> parseXML(DeepDocument),
                    n3Content |-> content, n3Store |-> parseN3(content),
                    oracle |-> "empty"]
    /\ elements = parseXML(DeepDocument)
    /\ eyeStore = EmptyStore
    /\ selectedElement = NULL
    /\ reasoning = <<>>
    /\ transitiveChains = <<>>
    /\ weightAnalysis = NoAnalysis
    /\ loading = FALSE
    /\ currentPart = 1
    /\ selectTask = NoTask
    /\ explorer = NoExplorer
    /\ navigation = NoNavigation

\* handleElementSelect(elementId) for an element of the chain, once.
DeepSelect == weightAnalysis = NoAnalysis /\ HandleElementSelectOf(DeepElementIds)

NextDeep ==
    \/ DeepSelect
    \/ SelectResults

SpecDeep == InitDeep /\ [][NextDeep]_vars

-----------------------------------------------------------------------------
(* C13..C16: loading, reloading and the frame of the queries *)

\* C13: when the inner try of the load threw or the oracle returned nothing, the
\* load ends with the parsed catalog and the asserted store installed and an empty
\* derived store; the query shown afterwards has no inferred record and one record
\* per asserted statement about the element and direction, and the chains are [].
C13_OracleFailureLeavesEmptyDerivedStore ==
    (load.pc = "done" /\ load.oracle \in {"threw", "empty"}) =>
      /\ ~loading
      /\ elements = load.elements
      /\ n3Store = parseN3(load.n3Content)
      /\ eyeStore = EmptyStore
      /\ \A e \in ElementIds :
           LET Asserted(quad) ==
                 \E p \in AssertedVocabulary : quad.predicate = VocabularyTerm(p)
               FromE(quad) == Asserted(quad) /\ quad.subject = [ns |-> ETHICS, local |-> e]
               ToE(quad) == Asserted(quad) /\ quad.object = [ns |-> ETHICS, local |-> e]
           IN Shown(e) =>
                /\ \A r \in Range(reasoning) : r.inferred = FALSE
                /\ Len(reasoning) = Count(n3Store, FromE) + Count(n3Store, ToE)
                /\ transitiveChains = <<>>

\* C13 witness: the inner try threw, and the query of an element the asserted store
\* has a statement about is shown with a record.
C13_Witness ==
    \E e \in ElementIds :
      /\ Shown(e)
      /\ load.oracle = "threw"
      /\ Len(reasoning) > 0
      /\ DOMAIN elements # {}

\* C14: if the document was parsed and the load of the asserted file then fails,
\* the parsed catalog is installed.
C14_ParsedCatalogInstalledOnFailure ==
    [][(load.pc = "n3" /\ load'.pc = "failed") => elements' = load.elements]_vars

\* C15: the catalog, the asserted store and the derived store change only in the
\* last update of a load, which installs all three of that load at once; a call of
\* handleElementSelect takes the three installed at its start, and its results are
\* computed from those three alone, whatever is installed meanwhile.
C15_StoresReplacedTogether ==
    [][/\ (elements' # elements \/ n3Store' # n3Store \/ eyeStore' # eyeStore)
            => /\ load.pc = "eye" /\ load'.pc = "done"
               /\ elements' = load.elements
               /\ n3Store' = load.n3Store
               /\ load'.oracle # "results" => eyeStore' = EmptyStore
               /\ load'.oracle = "results" => eyeStore' # EmptyStore
       /\ (~selectTask.pending /\ selectTask'.pending)
            => /\ selectTask'.elements = elements
               /\ selectTask'.n3Store = n3Store
               /\ selectTask'.eyeStore = eyeStore
       /\ (selectTask.pending /\ ~selectTask'.pending)
            => /\ reasoning' = performReasoning(selectTask.elementId, selectTask.n3Store,
                                                selectTask.eyeStore)
               /\ transitiveChains' = findTransitiveChains(selectTask.elementId,
                                                           selectTask.eyeStore)
               /\ weightAnalysis' = analyzeElementWeight(selectTask.elementId,
                                                         selectTask.n3Store,
                                                         selectTask.elements)
      ]_vars

\* C15 witness: a reload has installed a new catalog, asserted store and derived
\* store while a call of handleElementSelect holds the three it started with.
C15_Witness ==
    /\ selectTask.pending
    /\ load.pc = "done"
    /\ currentPart = 2
    /\ selectTask.elements # elements
    /\ selectTask.n3Store # n3Store
    /\ selectTask.eyeStore # eyeStore

\* C16: the queries are side-effect-free: a step that is not a step of the load
\* (a selection, the results of one, closing the panel) leaves the catalog, the
\* asserted store and the derived store as they were.
C16_QueriesLeaveStoresAlone ==
    [][load' = load =>
         /\ elements' = elements
         /\ n3Store' = n3Store
         /\ eyeStore' = eyeStore]_vars

\* C16 witness: the results of A are shown and a call for B is in flight, with
\* statements in both stores.
C16_Witness ==
    /\ weightAnalysis.elementId = "A"
    /\ Len(reasoning) > 0
    /\ selectTask.pending
    /\ selectTask.elementId = "B"
    /\ n3Store # <<>>
    /\ eyeStore # <<>>

-----------------------------------------------------------------------------
(* C17, C18: the reports of the explorer *)

\* The cites statements of the explorer's store in the order the report reads them.
ReportCitations == citations(explorer.store)

\* The number of cites statements of the store with the element as object.
CitedCount(element) ==
    Cardinality({quad \in Range(explorer.store) :
                   /\ quad.predicate = EthicsNode("cites")
                   /\ quad.object = EthicsNode(element)})

\* Where the report first meets the element as the object of a citation.
FirstSeen(element) ==
    CHOOSE i \in 1..Len(ReportCitations) :
      /\ ReportCitations[i].object = EthicsNode(element)
      /\ \A j \in 1..(i - 1) : ReportCitations[j].object # EthicsNode(element)

\* C17: getMostCitedElements(N) returns at most N pairs (as many as there are cited
\* elements, if fewer), each with the number of cites statements that have the
\* element as object, no element twice, by count descending and, for equal counts,
\* in first-seen order; each cited element left out has a count no greater than
\* any count returned.
C17_MostCitedReport ==
    explorer.report.name = "mostCited" =>
      LET rows == explorer.report.rows
          topN == explorer.report.topN
          cited == {element \in SpelledIds : CitedCount(element) > 0}
          listed == {rows[i][1] : i \in 1..Len(rows)}
      IN /\ Len(rows) <= topN
         /\ Len(rows) = (IF Cardinality(cited) < topN THEN Cardinality(cited) ELSE topN)
         /\ \A i \in 1..Len(rows) :
              /\ rows[i][1] \in cited
              /\ rows[i][2] = CitedCount(rows[i][1])
         /\ \A i, j \in 1..Len(rows) :
              i < j =>
                /\ rows[i][1] # rows[j][1]
                /\ rows[i][2] >= rows[j][2]
                /\ rows[i][2] = rows[j][2] => FirstSeen(rows[i][1]) < FirstSeen(rows[j][1])
         /\ \A element \in cited \ listed :
              \A i \in 1..Len(rows) : CitedCount(element) <= rows[i][2]

\* C17 witness: a report of two rows of different counts that leaves out an
\* element cited as often as the second row's, met later by the tally.
C17_Witness ==
    /\ explorer.report.name = "mostCited"
    /\ explorer.report.topN = 2
    /\ Len(explorer.report.rows) = 2
    /\ explorer.report.rows[1][2] > explorer.report.rows[2][2]
    /\ \E element \in SpelledIds :
         /\ element # explorer.report.rows[2][1]
         /\ CitedCount(element) = explorer.report.rows[2][2]

\* The proof-typed elements of the explorer's store whose id is the proposition's
\* id followed by something that does not continue its number.
ProofsOf(prop) ==
    {proofId \in SpelledIds :
       /\ Quad(EthicsNode(proofId), RdfTypeNode, EthicsNode("Proof")) \in Range(explorer.store)
       /\ LET chars == Spelling(proofId)
              prefix == Spelling(prop)
          IN /\ Len(chars) > Len(prefix)
             /\ SubSeq(chars, 1, Len(prefix)) = prefix
             /\ chars[Len(prefix) + 1] \notin Digits}

\* The report lists exactly the propositions of the given set with more than one
\* proof, each with the number of its proofs, by count descending.
MultipleProofsReportOf(props) ==
    LET rows == explorer.report.rows
    IN /\ \A prop \in props :
            (\E i \in 1..Len(rows) : rows[i][1] = prop) <=> Cardinality(ProofsOf(prop)) > 1
       /\ \A i \in 1..Len(rows) : rows[i][2] = Cardinality(ProofsOf(rows[i][1]))
       /\ \A i, j \in 1..Len(rows) :
            i < j => rows[i][1] # rows[j][1] /\ rows[i][2] >= rows[j][2]

\* C18 as stated: the multi-proof report lists a proposition exactly when it has
\* more than one proof, for the propositions of every part.
C18_Original ==
    explorer.report.name = "multipleProofs" =>
      MultipleProofsReportOf({"I.prop.1", "I.prop.11", "II.prop.1"})

\* C18: the multi-proof report lists a proposition of Part I exactly when more than
\* one proof-typed element has an id that starts with the proposition's id, with
\* the number of those proofs, by count descending; it lists nothing else (no
\* proposition of another part); proofs I.prop.11.proof1..3 give I.prop.11 with 3.
C18_MultipleProofsOfPartOne ==
    explorer.report.name = "multipleProofs" =>
      LET rows == explorer.report.rows
      IN /\ MultipleProofsReportOf({"I.prop.1", "I.prop.11"})
         /\ \A i \in 1..Len(rows) : rows[i][1] \in {"I.prop.1", "I.prop.11"}
         /\ {"I.prop.11.proof1", "I.prop.11.proof2", "I.prop.11.proof3"}
               \subseteq ProofsOf("I.prop.11")
              => \E i \in 1..Len(rows) : rows[i] = <<"I.prop.11", 3>>

\* C18 witness: the report lists I.prop.11 with its three proofs before I.prop.1
\* with its two.
C18_Witness ==
    /\ explorer.report.name = "multipleProofs"
    /\ explorer.report.rows = << <<"I.prop.11", 3>>, <<"I.prop.1", 2>> >>

-----------------------------------------------------------------------------
(* C19, C20: the score and the weights of analyze(e) *)

\* The base of the score as the specification gives it, in twentieths.
StatedBase(type) ==
    IF type = "definition" THEN 10 * 20
    ELSE IF type = "axiom" THEN 8 * 20
    ELSE IF type = "proposition" THEN 3 * 20
    ELSE IF type = "corollary" THEN 2 * 20
    ELSE IF type = "proof" THEN 1 * 20
    ELSE IF type = "note" THEN 10
    ELSE 0

\* The asserted statements with a weighted predicate that have e at either end.
WeightedAbout(e) ==
    {quad \in Range(n3Store) :
       /\ \E p \in Range(weightedPredicates) : quad.predicate = EthicsNode(p)
       /\ quad.subject = EthicsNode(e) \/ quad.object = EthicsNode(e)}

\* C19: the score of analyze(e) is base(type) + 1.5 * inboundWeight
\* + 0.2 * transitiveInfluence + 5 * dependencyRatio, the ratio being 1 when
\* outboundWeight is 0 and min(1, inboundWeight / outboundWeight) otherwise; it is
\* never negative, and with no weighted statement about e it is base(type) + 5.
\* (Weights and influence are in halves and the score is a fraction in twentieths.)
C19_ScoreFormula ==
    \A e \in ElementIds :
      Shown(e) =>
        LET score == weightAnalysis.foundationalScore
            inW == weightAnalysis.inboundWeight
            outW == weightAnalysis.outboundWeight
            influence == weightAnalysis.transitiveInfluence
            plain == StatedBase(elementType(e, elements)) + 15 * inW + 2 * influence
        IN /\ score.den > 0
           /\ score.num >= 0
           /\ (outW = 0 \/ inW >= outW) => score.num = (plain + 100) * score.den
           /\ (outW # 0 /\ inW < outW) =>
                score.num * outW = (plain * outW + 100 * inW) * score.den
           /\ WeightedAbout(e) = {} =>
                score.num = (StatedBase(elementType(e, elements)) + 100) * score.den

\* C19 witness: the analysis of a corollary is shown whose outbound weight is larger
\* than its inbound weight, both positive, with a positive transitive influence.
C19_Witness ==
    \E e \in ElementIds :
      /\ Shown(e)
      /\ elementType(e, elements) = "corollary"
      /\ weightAnalysis.inboundWeight > 0
      /\ weightAnalysis.outboundWeight > weightAnalysis.inboundWeight
      /\ weightAnalysis.transitiveInfluence > 0

\* The number of asserted statements (*, p, e).
StatementsTo(e, p) ==
    Cardinality({quad \in Range(n3Store) :
                   quad.predicate = EthicsNode(p) /\ quad.object = EthicsNode(e)})

\* The number of asserted statements (e, p, *).
StatementsFrom(e, p) ==
    Cardinality({quad \in Range(n3Store) :
                   quad.predicate = EthicsNode(p) /\ quad.subject = EthicsNode(e)})

\* The sum of the values of f at the nine weighted predicates.
OverPredicates(f) ==
    f["cites"] + f["necessarilyFollows"] + f["clearlyfollowsFrom"] + f["provedBy"]
      + f["appliesResultFrom"] + f["refutedByAbsurdity"] + f["buildsUpon"]
      + f["groundedIn"] + f["demonstratedBy"]

\* C20: inboundWeight of analyze(e) is the sum over the nine weighted predicates p
\* of weight(p) times the number of asserted statements (*, p, e), outboundWeight
\* the same over (e, p, *); the breakdown has an entry for a predicate and direction
\* exactly when there is such a statement, with count the length of its element
\* list and the number of the statements, weight count * weight(p), and the weights
\* of the entries sum to inboundWeight + outboundWeight.
C20_WeightsAndBreakdown ==
    \A e \in ElementIds :
      Shown(e) =>
        LET breakdown == weightAnalysis.relationshipBreakdown
            nine == Range(weightedPredicates)
            entryWeight(p, direction) ==
              IF <<p, direction>> \in DOMAIN breakdown
              THEN breakdown[<<p, direction>>].weight ELSE 0
        IN /\ weightAnalysis.inboundWeight =
                OverPredicates([p \in nine |-> relationshipWeights(p) * StatementsTo(e, p)])
           /\ weightAnalysis.outboundWeight =
                OverPredicates([p \in nine |-> relationshipWeights(p) * StatementsFrom(e, p)])
           /\ DOMAIN breakdown =
                {<<p, "inbound">> : p \in {q \in nine : StatementsTo(e, q) > 0}}
                  \cup {<<p, "outbound">> : p \in {q \in nine : StatementsFrom(e, q) > 0}}
           /\ \A k \in DOMAIN breakdown :
                /\ breakdown[k].count = Len(breakdown[k].elements)
                /\ breakdown[k].count =
                     (IF k[2] = "inbound" THEN StatementsTo(e, k[1])
                      ELSE StatementsFrom(e, k[1]))
                /\ breakdown[k].weight = breakdown[k].count * relationshipWeights(k[1])
           /\ OverPredicates([p \in nine |-> entryWeight(p, "inbound")])
                + OverPredicates([p \in nine |-> entryWeight(p, "outbound")])
                = weightAnalysis.inboundWeight + weightAnalysis.outboundWeight

\* C20 witness: the analysis of an element is shown that has an inbound statement
\* of one weighted predicate and an outbound statement of another.
C20_Witness ==
    \E e \in ElementIds :
      /\ Shown(e)
      /\ <<"cites", "inbound">> \in DOMAIN weightAnalysis.relationshipBreakdown
      /\ <<"refutedByAbsurdity", "outbound">> \in DOMAIN weightAnalysis.relationshipBreakdown
      /\ weightAnalysis.inboundWeight = 2
      /\ weightAnalysis.outboundWeight = 3

-----------------------------------------------------------------------------
(* C21..C25: the two traversals of analyze(e) *)

\* The analysis of e is shown on a store of the chain runs.
ShownDeep(e) == e \in DeepElementIds /\ Shown(e)

\* How often the run expanded the element.
Expansions(run, x) == Cardinality({i \in 1..Len(run.expanded) : run.expanded[i][1] = x})

RECURSIVE InfluenceByValue(_, _, _)
RECURSIVE InfluenceByValueOver(_, _, _)

\* The transitive influence if every call got its own copy of the visited set.
InfluenceByValue(x, visited, depth) ==
    IF depth > 4 \/ x \in visited THEN 0
    ELSE InfluenceByValueOver(weightedQuads(x, weightedPredicates, n3Store, TRUE),
                              visited \cup {x}, depth)

InfluenceByValueOver(dependents, visited, depth) ==
    IF dependents = <<>> THEN 0
    ELSE Head(dependents).weight * (5 - depth)
           + InfluenceByValue(Head(dependents).other, visited, depth + 1)
           + InfluenceByValueOver(Tail(dependents), visited, depth)

\* C21 as stated: the visited set goes by value to sibling branches, so that the
\* transitive influence counts the dependents of an element on every branch that
\* reaches it.
C21_Original ==
    \A e \in DeepElementIds :
      ShownDeep(e) => weightAnalysis.transitiveInfluence = InfluenceByValue(e, {}, 0)

RECURSIVE InboundOfExpanded(_)
\* The sum, over the expansions of a run, of the inbound weight of the element
\* expanded times 5 minus the depth of the expansion.
InboundOfExpanded(expanded) ==
    IF expanded = <<>> THEN 0
    ELSE inboundWeight(Head(expanded)[1], n3Store) * (5 - Head(expanded)[2])
           + InboundOfExpanded(Tail(expanded))

\* C21: the visited set of the transitive-influence traversal is one set shared by
\* the sibling branches: an element that two branches reach is expanded on the
\* first of them only, so the statements about it are counted once, at the depth of
\* that expansion, and the influence is never more than with a set passed by value.
C21_SharedVisitedSet ==
    \A e \in DeepElementIds :
      ShownDeep(e) =>
        \A run \in {influenceRun(e, n3Store).run} :
          /\ \A x \in DeepElementIds : Expansions(run, x) <= 1
          /\ weightAnalysis.transitiveInfluence = InboundOfExpanded(run.expanded)
          /\ weightAnalysis.transitiveInfluence <= InfluenceByValue(e, {}, 0)

\* C21 witness: two branches reach an element that has dependents of its own, and
\* the influence is less than it would be with a set passed by value.
C21_Witness ==
    \E e \in DeepElementIds :
      /\ ShownDeep(e)
      /\ weightAnalysis.transitiveInfluence < InfluenceByValue(e, {}, 0)

\* The elements the outbound statements of weighted predicates of x lead to, one
\* for each statement.
Dependencies(x) == weightedQuads(x, weightedPredicates, n3Store, FALSE)

RECURSIVE SimplePaths(_, _, _)
RECURSIVE SimplePathsOver(_, _, _)

\* The number of paths of outbound statements from x to target that repeat no
\* element and avoid the elements of onPath.
SimplePaths(x, target, onPath) ==
    IF x \in onPath THEN 0
    ELSE (IF x = target THEN 1 ELSE 0)
           + SimplePathsOver(Dependencies(x), target, onPath \cup {x})

SimplePathsOver(dependencies, target, onPath) ==
    IF dependencies = <<>> THEN 0
    ELSE SimplePaths(Head(dependencies).other, target, onPath)
           + SimplePathsOver(Tail(dependencies), target, onPath)

\* C22: the transitive-influence traversal shares one visited set among all its
\* calls and expands every element at most once; the dependency-depth traversal
\* copies the set for each branch and expands an element once for each path
\* without repetition that leads from e to it.
C22_SharedAgainstCopied ==
    \A e \in DeepElementIds :
      ShownDeep(e) =>
        \A influence \in {influenceRun(e, n3Store).run} :
          \A depth \in {depthRun(e, n3Store).run} :
            \A x \in DeepElementIds :
              /\ Expansions(influence, x) <= 1
              /\ Expansions(depth, x) = SimplePaths(e, x, {})

\* C22 witness: the depth traversal expands an element more than once, and the
\* influence traversal expands once an element that has several outbound statements.
C22_Witness ==
    \E e \in DeepElementIds :
      /\ ShownDeep(e)
      /\ \E x \in DeepElementIds : Expansions(depthRun(e, n3Store).run, x) > 1
      /\ \E x \in DeepElementIds :
           /\ Expansions(influenceRun(e, n3Store).run, x) = 1
           /\ Len(weightedQuads(x, weightedPredicates, n3Store, FALSE)) > 1

\* C23: the transitive-influence traversal expands no element at a depth greater
\* than 4, so every contribution is a weight times a multiplier in 1..5: the
\* influence lies between the inbound weights of the elements expanded and five
\* times them, and it is never negative.
C23_DepthCapKeepsInfluencePositive ==
    \A e \in DeepElementIds :
      ShownDeep(e) =>
        \A run \in {influenceRun(e, n3Store).run} :
          LET timesOne == [i \in 1..Len(run.expanded) |-> <<run.expanded[i][1], 4>>]
              timesFive == [i \in 1..Len(run.expanded) |-> <<run.expanded[i][1], 0>>]
          IN /\ \A i \in 1..Len(run.expanded) : run.expanded[i][2] \in 0..4
             /\ weightAnalysis.transitiveInfluence >= InboundOfExpanded(timesOne)
             /\ weightAnalysis.transitiveInfluence <= InboundOfExpanded(timesFive)
             /\ weightAnalysis.transitiveInfluence >= 0

\* C23 witness: on the whole chain the traversal from A expands E at depth 4 and
\* is stopped by the cap at F, which has a dependent.
C23_Witness ==
    /\ ShownDeep("A")
    /\ \A run \in {influenceRun("A", n3Store).run} :
         /\ <<"E", 4>> \in Range(run.expanded)
         /\ Expansions(run, "F") = 0
         /\ run.nesting = 6
    /\ Quad(EthicsNode("F"), EthicsNode("cites"), EthicsNode("E")) \in Range(n3Store)
    /\ Quad(EthicsNode("G"), EthicsNode("cites"), EthicsNode("F")) \in Range(n3Store)

RECURSIVE LongestSimplePath(_, _)
RECURSIVE LongestSimplePathOver(_, _)

\* The number of statements of the longest path of outbound statements from x
\* that repeats no element and avoids the elements of onPath.
LongestSimplePath(x, onPath) == LongestSimplePathOver(Dependencies(x), onPath \cup {x})

LongestSimplePathOver(dependencies, onPath) ==
    IF dependencies = <<>> THEN 0
    ELSE Max(IF Head(dependencies).other \in onPath THEN 0
             ELSE 1 + LongestSimplePath(Head(dependencies).other, onPath),
             LongestSimplePathOver(Tail(dependencies), onPath))

\* C24: dependencyDepth of analyze(e) is the number of statements of the longest
\* path from e along outbound statements of weighted predicates that repeats no
\* element, cycles included (with only (A, p, B) and (B, p, A) the depth of A is 1).
C24_DepthIsLongestSimplePath ==
    \A e \in DeepElementIds :
      ShownDeep(e) => weightAnalysis.dependencyDepth = LongestSimplePath(e, {})

\* C25: transitiveInfluence(e) >= 5 * inboundWeight(e), with equality when no
\* direct dependent of e has a weighted inbound statement of its own, and
\* transitiveInfluence(e) = 0 exactly when inboundWeight(e) = 0.
C25_InfluenceAtLeastFiveTimesInbound ==
    \A e \in DeepElementIds :
      ShownDeep(e) =>
        LET dependents == weightedQuads(e, weightedPredicates, n3Store, TRUE)
        IN /\ weightAnalysis.transitiveInfluence >= 5 * weightAnalysis.inboundWeight
           /\ (\A i \in 1..Len(dependents) : inboundWeight(dependents[i].other, n3Store) = 0)
                => weightAnalysis.transitiveInfluence = 5 * weightAnalysis.inboundWeight
           /\ weightAnalysis.transitiveInfluence = 0 <=> weightAnalysis.inboundWeight = 0

\* C25 witness: A has two statements from the same dependent B, which has no
\* dependent of its own: the second is counted though B is visited already.
C25_Witness ==
    /\ ShownDeep("A")
    /\ Quad(EthicsNode("B"), EthicsNode("cites"), EthicsNode("A")) \in Range(n3Store)
    /\ Quad(EthicsNode("B"), EthicsNode("provedBy"), EthicsNode("A")) \in Range(n3Store)
    /\ inboundWeight("B", n3Store) = 0
    /\ weightAnalysis.inboundWeight = 6
    /\ weightAnalysis.transitiveInfluence = 30

-----------------------------------------------------------------------------
(* C26..C28: selections, part changes and the end of a load *)

\* C26: whenever an element is selected and weightAnalysis is not null, the
\* analysis is the one of the selected element, and reasoning and transitiveChains
\* are the results for that element.
C26_ResultsBelongToSelection ==
    (selectedElement # NULL /\ weightAnalysis # NoAnalysis) =>
      /\ weightAnalysis.elementId = selectedElement
      /\ reasoning = performReasoning(selectedElement, n3Store, eyeStore)
      /\ transitiveChains = findTransitiveChains(selectedElement, eyeStore)

\* C27: when no load is running, the installed catalog (if one is installed) is
\* the one parsed from the document of the current part, never that of a part
\* selected earlier.
C27_CatalogOfCurrentPart ==
    (~loading /\ load.pc \in {"done", "failed"} /\ DOMAIN elements # {}) =>
      elements = parseXML(DocumentOfPart(currentPart))

\* C28: every run of loadData ends with loading false, whether all its steps
\* succeed, the oracle fails, or the document or the asserted file fails: loading
\* never stays true.
C28_LoadingEnds == loading ~> ~loading

\* C28 witness: a reload of the second part has failed, and loading is false.
C28_Witness ==
    /\ ~loading
    /\ load.pc = "failed"
    /\ currentPart = 2
    /\ DOMAIN elements # {}

-----------------------------------------------------------------------------
(* C29: the retries of the navigation *)

\* C29: after a part switch attemptNavigation looks the element up at most 11
\* times (attempts 0..10; the first after 100 ms, retry n after 50 * n ms); a lookup
\* that finds the element selects it and ends the chain, a lookup that does not
\* find it selects nothing, and the 11th such lookup ends the chain.
C29_NavigationRetriesBounded ==
    [][/\ navigation'.lookups <= 11
       /\ navigation'.attempts \in 0..10
       /\ navigation'.active => navigation'.lookups = navigation'.attempts
       /\ navigation'.active =>
            navigation'.delay = (IF navigation'.attempts = 0 THEN 100
                                 ELSE 50 * navigation'.attempts)
       /\ (navigation.active /\ navigation' # navigation) =>
            /\ navigation'.lookups = navigation.lookups + 1
            /\ IF querySelector(navigation.elementId)
               THEN /\ selectedElement' = navigation.elementId
                    /\ selectTask'.pending
                    /\ ~navigation'.active
               ELSE /\ UNCHANGED <<selectedElement, selectTask>>
                    /\ navigation'.active <=> navigation.attempts < 10
      ]_vars

\* C29 witness: the chain has ended after 11 lookups without finding the element,
\* and nothing is selected.
C29_Witness ==
    /\ ~navigation.active
    /\ navigation.lookups = 11
    /\ navigation.attempts = 10
    /\ ~navigation.found
    /\ selectedElement = NULL

-----------------------------------------------------------------------------
(* C30: the dependency chain of the explorer *)

\* The trace goes on from x to y: x cites y, or x cites nothing and a partOf
\* sub-element of x cites y.
TraceStep(x, y) ==
    LET cites(a, b) ==
          Quad(EthicsNode(a), EthicsNode("cites"), EthicsNode(b)) \in Range(explorer.store)
    IN IF \E z \in TraceElements : cites(x, z)
       THEN cites(x, y)
       ELSE \E sub \in TraceElements :
              /\ Quad(EthicsNode(sub), EthicsNode("partOf"), EthicsNode(x))
                   \in Range(explorer.store)
              /\ cites(sub, y)

\* C30: traceDependencyChain(start, maxDepth) returns on every store, citation
\* cycles included, after a bounded number of calls; it visits the start first, no
\* element twice and none at a depth greater than maxDepth; and every other element
\* visited is cited by an element visited one level above it, or, only if that
\* element cites nothing, by one of its partOf sub-elements.
C30_TraceTerminates ==
    explorer.report.name = "trace" =>
      LET run == explorer.report.rows.run
          log == run.log
          maxDepth == explorer.report.topN
      IN /\ ~run.exhausted
         /\ run.calls <= 1 + Len(log) * Len(explorer.store)
         /\ log[1] = <<explorer.report.rows.start, 0>>
         /\ \A i, j \in 1..Len(log) : i # j => log[i][1] # log[j][1]
         /\ \A i \in 1..Len(log) : log[i][2] \in 0..maxDepth
         /\ \A i \in 2..Len(log) :
              \E j \in 1..(i - 1) :
                /\ log[j][2] + 1 = log[i][2]
                /\ TraceStep(log[j][1], log[i][1])

\* C30 witness: a trace from C, which cites nothing itself, has gone on through a
\* sub-element into a citation cycle and has been stopped by the visited set or the
\* depth.
C30_Witness ==
    /\ explorer.report.name = "trace"
    /\ explorer.report.rows.start = "C"
    /\ citesFrom(explorer.store, "C") = <<>>
    /\ Len(explorer.report.rows.run.log) >= 3
    /\ explorer.report.rows.run.calls > Len(explorer.report.rows.run.log)
    /\ Quad(EthicsNode("B"), EthicsNode("cites"), EthicsNode("B")) \in Range(explorer.store)

====
